---- MODULE Spec2Model ----
(***************************************************************************)
(* Model of the AI summary generator and its caches (src/src/ai.py:       *)
(* AIAnalyzer, ReportAICache and EnhancedAIAnalyzer), of the report loader *)
(* (src/src/loader.py) and of the analytics (src/src/analytics.py).        *)
(*                                                                         *)
(* Texts (summaries, completion contents, the API key) are sequences of    *)
(* one-character strings, so that str.strip() is computed, not assumed.    *)
(* Python's None is the one-element sequence <<"None">>, which no text     *)
(* equals because every element of a text is a single character.           *)
(***************************************************************************)
EXTENDS Integers, Sequences, FiniteSets, TLC

VARIABLES
    api_key,        \* AIAnalyzer.api_key
    cache,          \* AIAnalyzer.cache: in-memory dict, key -> summary
    memory_cache,   \* ReportAICache.memory_cache: what json.load gave, or a dict
    cache_file,     \* content of the file ReportAICache.cache_file names
    ai_summary,     \* report["ai_summary"] of each report dict the host holds
    last,           \* the last call: its name, arguments, outcome, transport attempts
    subject,        \* the report dict the host takes the fingerprint of
    directory,      \* the reports directory: file name -> content
    reports,        \* the host's list of reports
    log             \* the records the loader's logger was given

vars == <<api_key, cache, memory_cache, cache_file, ai_summary, last,
          subject, directory, reports, log>>

\* what the analyzer and its caches never touch
host == <<subject, directory, reports, log>>

----------------------------------------------------------------------------
(* Bounds of the model *)

\* cache timestamps are drawn from 1..MaxTime (time.time() is an input)
MaxTime == 1

\* the endpoint's answers to the successive attempts of one request are a
\* script of at most MaxScript answers, the last one repeated afterwards
MaxScript == 2

----------------------------------------------------------------------------
(* Python values *)

None == <<"None">>
True == <<"True">>
False == <<"False">>

\* bool(x) of a str-or-None value: None and "" are falsy
Truthy(x) == x /= None /\ x /= <<>>

IsSpace(c) == c = " "

RECURSIVE LStrip(_)
LStrip(s) == IF s /= <<>> /\ IsSpace(Head(s)) THEN LStrip(Tail(s)) ELSE s

RECURSIVE RStrip(_)
RStrip(s) ==
    IF s /= <<>> /\ IsSpace(s[Len(s)]) THEN RStrip(SubSeq(s, 1, Len(s) - 1)) ELSE s

\* str.strip()
Strip(s) == RStrip(LStrip(s))

----------------------------------------------------------------------------
(* Reports *)

\* The strings of the reports' sortable fields, in Python's (code point) order
StrOrder ==
    <<"", "443", "80", "CSRF", "SQLi", "api.a.com", "high", "low", "www.a.com", "www.b.com">>

Rank(s) == CHOOSE i \in 1..Len(StrOrder) : StrOrder[i] = s

\* report dicts as the loader returns them, without their ai_summary (a
\* variable); open_ports is the dict's item list in insertion order
ReportA ==
    [target |-> "a.com", scan_date |-> "2025-01-15",
     subdomains |-> <<"www.a.com", "api.a.com">>,
     open_ports |-> << <<"80", "http">>, <<"443", "https">> >>,
     vulnerabilities |->
        << [severity |-> "high", title |-> "SQLi", description |-> "d1",
            affected_service |-> "http", cve_id |-> "CVE-1"] >>]

ReportB ==
    [target |-> "b.com", scan_date |-> "2025/01/16",
     subdomains |-> <<"www.b.com">>,
     open_ports |-> << <<"443", "https">> >>,
     vulnerabilities |-> << >>]

\* the report dicts the host holds, by name
Reports == {"A", "B"}
Dict(r) == IF r = "A" THEN ReportA ELSE ReportB

StrLe(a, b) == Rank(a) <= Rank(b)
ItemLe(a, b) == Rank(a[1]) <= Rank(b[1])
SevTitleLe(a, b) ==
    \/ Rank(a.severity) < Rank(b.severity)
    \/ a.severity = b.severity /\ Rank(a.title) <= Rank(b.title)

\* a <= b under the sort key named by: strings, (port, service) items, or
\* vulnerabilities by (severity, title)
Le(by, a, b) ==
    CASE by = "str" -> StrLe(a, b)
      [] by = "item" -> ItemLe(a, b)
      [] by = "sevtitle" -> SevTitleLe(a, b)

\* insert x into the sorted sequence s after every element not greater than
\* it: sorted() is stable
RECURSIVE InsertSorted(_, _, _)
InsertSorted(x, s, by) ==
    IF s = <<>> THEN <<x>>
    ELSE IF Le(by, Head(s), x) THEN <<Head(s)>> \o InsertSorted(x, Tail(s), by)
    ELSE <<x>> \o s

\* sorted(s) / sorted(s, key=...)
RECURSIVE Sorted(_, _)
Sorted(s, by) ==
    IF s = <<>> THEN <<>>
    ELSE InsertSorted(s[Len(s)], Sorted(SubSeq(s, 1, Len(s) - 1), by), by)

\* dict.get(k, default)
Get(d, k, default) == IF k \in DOMAIN d THEN d[k] ELSE default

\* a cache_data that takes subdomains and open_ports in the report's order
report_cache_data_unsorted(report) ==
    [target |-> Get(report, "target", ""),
     scan_date |-> Get(report, "scan_date", ""),
     subdomains |-> Get(report, "subdomains", <<>>),
     open_ports |-> Get(report, "open_ports", <<>>),
     vulnerabilities |->
        Sorted([i \in 1..Len(Get(report, "vulnerabilities", <<>>)) |->
                    [severity |-> Get(report.vulnerabilities[i], "severity", ""),
                     title |-> Get(report.vulnerabilities[i], "title", ""),
                     description |-> Get(report.vulnerabilities[i], "description", "")]],
               "sevtitle")]

\* a cache_data that leaves the descriptions out
report_cache_data_no_description(report) ==
    [target |-> Get(report, "target", ""),
     scan_date |-> Get(report, "scan_date", ""),
     subdomains |-> Sorted(Get(report, "subdomains", <<>>), "str"),
     open_ports |-> Sorted(Get(report, "open_ports", <<>>), "item"),
     vulnerabilities |->
        Sorted([i \in 1..Len(Get(report, "vulnerabilities", <<>>)) |->
                    [severity |-> Get(report.vulnerabilities[i], "severity", ""),
                     title |-> Get(report.vulnerabilities[i], "title", "")]],
               "sevtitle")]

\* a cache_data that takes the vulnerabilities whole
report_cache_data_whole_vulns(report) ==
    [target |-> Get(report, "target", ""),
     scan_date |-> Get(report, "scan_date", ""),
     subdomains |-> Sorted(Get(report, "subdomains", <<>>), "str"),
     open_ports |-> Sorted(Get(report, "open_ports", <<>>), "item"),
     vulnerabilities |-> Sorted(Get(report, "vulnerabilities", <<>>), "sevtitle")]

\* the cache_data dict of ReportAICache.get_cache_key
report_cache_data(report) ==
    [target |-> Get(report, "target", ""),
     scan_date |-> Get(report, "scan_date", ""),
     subdomains |-> Sorted(Get(report, "subdomains", <<>>), "str"),
     open_ports |-> Sorted(Get(report, "open_ports", <<>>), "item"),
     vulnerabilities |->
        Sorted([i \in 1..Len(Get(report, "vulnerabilities", <<>>)) |->
                    [severity |-> Get(report.vulnerabilities[i], "severity", ""),
                     title |-> Get(report.vulnerabilities[i], "title", ""),
                     description |-> Get(report.vulnerabilities[i], "description", "")]],
               "sevtitle")]

\* the cache_data dict of AIAnalyzer._generate_cache_key: the
\* vulnerabilities list goes in as it is
analyzer_cache_data(report) ==
    [target |-> Get(report, "target", ""),
     scan_date |-> Get(report, "scan_date", ""),
     subdomains |-> Sorted(Get(report, "subdomains", <<>>), "str"),
     open_ports |-> Sorted(Get(report, "open_ports", <<>>), "item"),
     vulnerabilities |-> Get(report, "vulnerabilities", <<>>)]

\* json.dumps(cache_data, sort_keys=True): a record has no key order, and
\* distinct records dump to distinct strings
json_dumps(data) == data

\* hashlib.md5(...).hexdigest(), taken as injective: the digest of a cache
\* string is the string, marked as a digest
md5(cache_string) == <<"md5", cache_string>>

\* the keys of the host's report dicts, computed once
HostDicts == {ReportA, ReportB}
ReportKeys == [d \in HostDicts |-> md5(json_dumps(report_cache_data(d)))]
AnalyzerKeys == [d \in HostDicts |-> md5(json_dumps(analyzer_cache_data(d)))]

\* ReportAICache.get_cache_key
get_cache_key(report) ==
    IF report \in HostDicts THEN ReportKeys[report]
    ELSE md5(json_dumps(report_cache_data(report)))

\* AIAnalyzer._generate_cache_key
generate_cache_key(report) ==
    IF report \in HostDicts THEN AnalyzerKeys[report]
    ELSE md5(json_dumps(analyzer_cache_data(report)))

----------------------------------------------------------------------------
(* Python dicts with keys in a finite set are functions on their key set *)

EmptyDict == [k \in {} |-> None]

DictSet(d, k, v) == [x \in DOMAIN d \cup {k} |-> IF x = k THEN v ELSE d[x]]

DictDel(d, k) == [x \in DOMAIN d \ {k} |-> d[x]]

\* the element of a one-element set: The({F(x) : x \in {e}}) is F(e) with e
\* evaluated once
The(S) == CHOOSE x \in S : TRUE

\* what a call gives back: a value, or an exception that escapes it
Return(v) == [raised |-> FALSE, ret |-> v]
Raise(e) == [raised |-> TRUE, ret |-> <<e>>]

----------------------------------------------------------------------------
(* ReportAICache: the persistent cache *)

\* a JSON document as json.load returns it: an object (a dict of entries),
\* or another JSON value, of which a list stands for all
JsonDict(items) == [shape |-> "dict", items |-> items]
JsonList == [shape |-> "list", items |-> EmptyDict]

\* the cache file: missing, not parsable as JSON, or a JSON document
FileAbsent == [kind |-> "absent", doc |-> JsonDict(EmptyDict)]
FileGarbage == [kind |-> "garbage", doc |-> JsonDict(EmptyDict)]
FileJson(doc) == [kind |-> "json", doc |-> doc]

\* ReportAICache.__init__ and load_persistent_cache: memory_cache starts as
\* {} and becomes whatever json.load returns; a JSONDecodeError or IOError
\* leaves {}
load_persistent_cache(file) ==
    IF file.kind = "json" THEN file.doc ELSE JsonDict(EmptyDict)

\* outcomes of writing the file: the write succeeds, open() raises IOError
\* (file untouched), or the write raises IOError after open(..., 'w') has
\* truncated the file
IOOutcomes == {"ok", "open_fails", "write_fails"}

\* ReportAICache.save_persistent_cache: the new content of the file; an
\* IOError is caught and only printed
save_persistent_cache(mc, file, io) ==
    CASE io = "ok" -> FileJson(mc)
      [] io = "open_fails" -> file
      [] io = "write_fails" -> FileGarbage

\* ReportAICache.get_cached_summary(report), report["ai_summary"] being ai
get_cached_summary(mc, report, ai) ==
    IF Truthy(ai) THEN Return(ai)
    ELSE IF mc.shape /= "dict" THEN Raise("AttributeError")
    ELSE IF get_cache_key(report) \in DOMAIN mc.items
         THEN Return(mc.items[get_cache_key(report)].summary)
    ELSE Return(None)

\* a cache_summary that keeps the entry a fingerprint already has, as
\* dict.setdefault would
cache_summary_setdefault(mc, file, report, summary, t, io) ==
    IF mc.shape /= "dict"
    THEN [out |-> Raise("TypeError"), mc |-> mc, file |-> file]
    ELSE LET entry == [summary |-> summary, timestamp |-> t, target |-> Get(report, "target", "unknown")]
             k == get_cache_key(report)
             new == IF k \in DOMAIN mc.items THEN mc
                    ELSE JsonDict(DictSet(mc.items, k, entry))
         IN [out |-> Return(None), mc |-> new,
             file |-> save_persistent_cache(new, file, io)]

\* ReportAICache.cache_summary(report, summary) at time t: the outcome, the
\* new memory_cache and the new file
cache_summary(mc, file, report, summary, t, io) ==
    IF mc.shape /= "dict"
    THEN [out |-> Raise("TypeError"), mc |-> mc, file |-> file]
    ELSE LET entry == [summary |-> summary, timestamp |-> t, target |-> Get(report, "target", "unknown")]
             new == JsonDict(DictSet(mc.items, get_cache_key(report), entry))
         IN [out |-> Return(None), mc |-> new,
             file |-> save_persistent_cache(new, file, io)]

\* an invalidate_cache that reports the entry but leaves it in place
invalidate_cache_keeps_entry(mc, file, report, io) ==
    IF mc.shape = "dict" /\ get_cache_key(report) \in DOMAIN mc.items
    THEN [out |-> Return(True), mc |-> mc,
          file |-> save_persistent_cache(mc, file, io)]
    ELSE [out |-> Return(False), mc |-> mc, file |-> file]

\* an invalidate_cache that removes the entry from memory_cache only
invalidate_cache_memory_only(mc, file, report, io) ==
    IF mc.shape = "dict" /\ get_cache_key(report) \in DOMAIN mc.items
    THEN [out |-> Return(True),
          mc |-> JsonDict(DictDel(mc.items, get_cache_key(report))),
          file |-> file]
    ELSE [out |-> Return(False), mc |-> mc, file |-> file]

\* ReportAICache.invalidate_cache(report)
invalidate_cache(mc, file, report, io) ==
    IF mc.shape = "dict" /\ get_cache_key(report) \in DOMAIN mc.items
    THEN LET new == JsonDict(DictDel(mc.items, get_cache_key(report)))
         IN [out |-> Return(True), mc |-> new,
             file |-> save_persistent_cache(new, file, io)]
    ELSE [out |-> Return(False), mc |-> mc, file |-> file]

\* ReportAICache.clear_cache(): dict.clear() or list.clear(), then save
clear_cache(mc, file, io) ==
    LET new == [shape |-> mc.shape, items |-> EmptyDict]
    IN [out |-> Return(None), mc |-> new,
        file |-> save_persistent_cache(new, file, io)]

----------------------------------------------------------------------------
(* The remote endpoint and the session's transport *)

\* completion texts the endpoint may send as choices[0].message.content
Contents == { <<" ">>, <<"a">>, <<" ", "b">> }

\* the body of a response
Body(shape, content) == [shape |-> shape, content |-> content]
NoBody == Body("none", <<>>)

\* bodies of an HTTP 200: not JSON, no "choices", "choices": [], a choice
\* without "message", a null content, or a completion text
OkBodies ==
    {Body(s, <<>>) : s \in {"invalid_json", "no_choices", "empty_choices",
                            "no_message", "null_content"}}
    \cup {Body("content", c) : c \in Contents}

Response(status, body) == [kind |-> "response", status |-> status, body |-> body]
Failure(kind) == [kind |-> kind, status |-> 0, body |-> NoBody]

ErrorStatuses == {401, 402, 404, 429, 500, 502, 503, 504}

\* what the endpoint can answer to one attempt
Answers ==
    {Response(200, b) : b \in OkBodies}
    \cup {Response(s, NoBody) : s \in ErrorStatuses}
    \cup {Failure(k) : k \in {"connect_error", "connect_timeout", "read_timeout"}}

RECURSIVE SeqsUpTo(_, _)
SeqsUpTo(S, n) ==
    IF n = 0 THEN {<<>>}
    ELSE LET shorter == SeqsUpTo(S, n - 1)
         IN shorter \cup {Append(s, x) : s \in {q \in shorter : Len(q) = n - 1}, x \in S}

\* what the endpoint answers to an attempt after the first one
LaterAnswers ==
    {Response(200, Body("content", <<"a">>)), Response(401, NoBody),
     Response(429, NoBody), Failure("connect_error")}

\* the endpoint's answers to the successive attempts of one request
Scripts ==
    {<<a>> \o rest : a \in Answers, rest \in SeqsUpTo(LaterAnswers, MaxScript - 1)}

\* the endpoint answers every attempt of a request alike
OneAnswerScripts ==
    {<<a>> : a \in {Response(200, Body("content", c)) : c \in Contents}
                   \cup {Response(200, Body("empty_choices", <<>>)),
                         Response(401, NoBody), Failure("connect_error"),
                         Failure("read_timeout")}}

\* the answer to attempt i: the last answer of the script is repeated
AnswerAt(script, i) == script[IF i <= Len(script) THEN i ELSE Len(script)]

\* Retry(total=3, backoff_factor=1, status_forcelist=[429, 500, 502, 503, 504])
RetryTotal == 3
StatusForcelist == {429, 500, 502, 503, 504}
\* no allowed_methods is given: urllib3's default is the idempotent methods
AllowedMethods == {"HEAD", "GET", "PUT", "DELETE", "OPTIONS", "TRACE"}

\* a retry policy that retries every error status of every method
is_retry_every_error(method, status) == status >= 400

\* Retry.is_retry(method, status_code) of the mounted adapter
is_retry(method, status) ==
    method \in AllowedMethods /\ status \in StatusForcelist

\* a transport that reports exhausted connection timeouts as connection
\* errors
RECURSIVE send_timeout_as_connection_error(_, _, _, _)
send_timeout_as_connection_error(script, method, i, left) ==
    LET a == AnswerAt(script, i)
        done(exc) == [calls |-> i, exc |-> exc, resp |-> a]
    IN CASE a.kind = "response" ->
              IF is_retry(method, a.status)
              THEN IF left > 0
                   THEN send_timeout_as_connection_error(script, method, i + 1, left - 1)
                   ELSE done("RetryError")
              ELSE done("")
         [] a.kind \in {"connect_error", "connect_timeout"} ->
              IF left > 0
              THEN send_timeout_as_connection_error(script, method, i + 1, left - 1)
              ELSE done("ConnectionError")
         [] a.kind = "read_timeout" ->
              IF method \notin AllowedMethods THEN done("ReadTimeout")
              ELSE IF left > 0
              THEN send_timeout_as_connection_error(script, method, i + 1, left - 1)
              ELSE done("ConnectionError")

\* session.post / session.get through the HTTPAdapter, attempt i with
\* left retries remaining: the number of transport attempts made and either
\* the response returned or the exception requests raises.  Connection
\* errors are retried for every method; a status of the forcelist and a read
\* timeout only for a method is_retry allows
RECURSIVE send(_, _, _, _)
send(script, method, i, left) ==
    LET a == AnswerAt(script, i)
        done(exc) == [calls |-> i, exc |-> exc, resp |-> a]
    IN CASE a.kind = "response" ->
              IF is_retry(method, a.status)
              THEN IF left > 0 THEN send(script, method, i + 1, left - 1)
                   ELSE done("RetryError")
              ELSE done("")
         [] a.kind = "connect_error" ->
              IF left > 0 THEN send(script, method, i + 1, left - 1)
              ELSE done("ConnectionError")
         [] a.kind = "connect_timeout" ->
              IF left > 0 THEN send(script, method, i + 1, left - 1)
              ELSE done("ConnectTimeout")
         [] a.kind = "read_timeout" ->
              IF method \notin AllowedMethods THEN done("ReadTimeout")
              ELSE IF left > 0 THEN send(script, method, i + 1, left - 1)
              ELSE done("ConnectionError")

----------------------------------------------------------------------------
(* AIAnalyzer *)

\* an is_enabled that takes every string for a credential
is_enabled_any_string(key) == key /= None

\* AIAnalyzer.is_enabled
is_enabled(key) == key /= None /\ Len(Strip(key)) > 0

\* a response handling that prints one message for every failure
handle_response_one_message(c, cache_key, tr) ==
    IF tr.exc = "" /\ tr.resp.status = 200 /\ tr.resp.body.shape = "content"
    THEN [ret |-> Strip(tr.resp.body.content), calls |-> tr.calls, msg |-> "",
          cache |-> DictSet(c, cache_key, Strip(tr.resp.body.content))]
    ELSE [ret |-> None, calls |-> tr.calls, msg |-> "Request failed", cache |-> c]

\* AIAnalyzer.generate_summary, from the response on: tr is what
\* session.post returned or raised.  The value returned, the transport
\* attempts made, the message printed and the new in-memory cache
handle_response(c, cache_key, tr) ==
    LET fail(msg) == [ret |-> None, calls |-> tr.calls, msg |-> msg, cache |-> c]
    IN CASE tr.exc \in {"ConnectTimeout", "ReadTimeout"} -> fail("Request timed out")
         [] tr.exc = "ConnectionError" -> fail("Connection failed")
         [] tr.exc = "RetryError" -> fail("Request failed")
         [] tr.exc = "" /\ tr.resp.status = 200 ->
              (CASE tr.resp.body.shape = "invalid_json" -> fail("Invalid JSON response")
                 [] tr.resp.body.shape \in {"no_choices", "empty_choices"} ->
                      fail("Unexpected response format")
                 [] tr.resp.body.shape \in {"no_message", "null_content"} ->
                      fail("Unexpected error")
                 [] tr.resp.body.shape = "content" ->
                      LET summary == Strip(tr.resp.body.content)
                      IN [ret |-> summary, calls |-> tr.calls, msg |-> "",
                          cache |-> DictSet(c, cache_key, summary)])
         [] tr.exc = "" /\ tr.resp.status = 401 -> fail("Invalid API key")
         [] tr.exc = "" /\ tr.resp.status = 429 -> fail("Rate limit exceeded")
         [] tr.exc = "" /\ tr.resp.status = 402 -> fail("Insufficient credits")
         [] OTHER -> fail("HTTP error")

\* AIAnalyzer.generate_summary(report) with in-memory cache c, the endpoint
\* playing script
generate_summary(key, c, report, script) ==
    IF ~is_enabled(key)
    THEN [ret |-> None, calls |-> 0, msg |-> "", cache |-> c]
    ELSE IF generate_cache_key(report) \in DOMAIN c
    THEN [ret |-> c[generate_cache_key(report)], calls |-> 0, msg |-> "", cache |-> c]
    ELSE The({handle_response(c, generate_cache_key(report), tr) :
                 tr \in {send(script, "POST", 1, RetryTotal)}})

\* what the process prints for a failure: response.json() raises
\* json.JSONDecodeError or, with requests 2.27 and later, a subclass of it
\* that is also a RequestException, which the earlier except clause catches
Printed(msg) ==
    IF msg = "Invalid JSON response" THEN {"Invalid JSON response", "Request failed"}
    ELSE {msg}

\* AIAnalyzer.validate_api_key(): a test request; the value returned and the
\* transport attempts made
validate_api_key(key, script) ==
    IF ~is_enabled(key) THEN [ret |-> False, calls |-> 0]
    ELSE The({[ret |-> IF tr.exc = "" /\ tr.resp.status = 200 THEN True ELSE False,
               calls |-> tr.calls] :
                 tr \in {send(script, "POST", 1, RetryTotal)}})

----------------------------------------------------------------------------
(* EnhancedAIAnalyzer *)

\* EnhancedAIAnalyzer.generate_summary_for_report once generate_summary has
\* returned g: cache a truthy summary and store it in the report
store_summary(mc, file, ai, report, g, t, io) ==
    LET cs == cache_summary(mc, file, report, g.ret, t, io)
    IN IF ~Truthy(g.ret)
       THEN [out |-> Return(g.ret), calls |-> g.calls, cache |-> g.cache,
             mc |-> mc, file |-> file, ai |-> ai]
       ELSE IF cs.out.raised
       THEN [out |-> cs.out, calls |-> g.calls, cache |-> g.cache,
             mc |-> mc, file |-> file, ai |-> ai]
       ELSE [out |-> Return(g.ret), calls |-> g.calls, cache |-> g.cache,
             mc |-> cs.mc, file |-> cs.file, ai |-> g.ret]

\* EnhancedAIAnalyzer.generate_summary_for_report(report, force_refresh),
\* report["ai_summary"] being ai: the outcome, the transport attempts and
\* the new in-memory cache, report cache, cache file and ai_summary
generate_summary_for_report(key, c, mc, file, ai, report, force_refresh, script, t, io) ==
    LET same(out) == [out |-> out, calls |-> 0, cache |-> c, mc |-> mc,
                      file |-> file, ai |-> ai]
        cached == get_cached_summary(mc, report, ai)
    IN IF ~is_enabled(key) THEN same(Return(None))
       ELSE IF ~force_refresh /\ cached.raised THEN same(cached)
       ELSE IF ~force_refresh /\ Truthy(cached.ret) THEN same(cached)
       ELSE The({store_summary(mc, file, ai, report, g, t, io) :
                    g \in {generate_summary(key, c, report, script)}})

\* EnhancedAIAnalyzer.update_report_with_ai_summary, once
\* generate_summary_for_report has given r
annotate(r) ==
    IF r.out.raised THEN r
    ELSE IF Truthy(r.out.ret) THEN [r EXCEPT !.out = Return(True), !.ai = r.out.ret]
    ELSE [r EXCEPT !.out = Return(False)]

\* EnhancedAIAnalyzer.update_report_with_ai_summary(report, force_refresh)
update_report_with_ai_summary(key, c, mc, file, ai, report, force_refresh, script, t, io) ==
    The({annotate(r) :
            r \in {generate_summary_for_report(key, c, mc, file, ai, report,
                                               force_refresh, script, t, io)}})

----------------------------------------------------------------------------
(* State machines.  The host's calls are atomic: the code is synchronous    *)
(* and single-threaded.  last records the call just made.                   *)

ApiKeys == {None, <<>>, <<" ">>, <<"k">>}
Times == 1..MaxTime

\* the summaries the host hands to cache_summary
Summaries == {<<>>, <<"a">>}

\* the ai_summary a report file can carry when it is loaded
LoadedSummaries == {None, <<"b">>}

\* the cache file found at start-up: none, unparsable, a JSON list, or {}
InitialFiles ==
    {FileAbsent, FileGarbage, FileJson(JsonList), FileJson(JsonDict(EmptyDict))}

Call(op, report, flag, arg, out, calls, script) ==
    [op |-> op, report |-> report, flag |-> flag, arg |-> arg,
     raised |-> out.raised, ret |-> out.ret, calls |-> calls, script |-> script,
     msg |-> ""]

Started == Call("init", "", FALSE, None, Return(None), 0, <<>>)

\* no fingerprint taken, nothing loaded yet
HostIdle ==
    /\ subject = ReportA
    /\ directory = EmptyDict
    /\ reports = <<>>
    /\ log = <<>>

\* report_cache.get_cached_summary(report)
GetCachedSummary(report) ==
    /\ last' = Call("get_cached_summary", report, FALSE, None,
                    get_cached_summary(memory_cache, Dict(report), ai_summary[report]),
                    0, <<>>)
    /\ UNCHANGED <<api_key, cache, memory_cache, cache_file, ai_summary, host>>

\* report_cache.cache_summary(report, summary); flag: the file write succeeds
CacheSummary(report, summary, t, io) ==
    \E r \in {cache_summary(memory_cache, cache_file, Dict(report), summary, t, io)} :
       /\ memory_cache' = r.mc
       /\ cache_file' = r.file
       /\ last' = Call("cache_summary", report, io = "ok", summary, r.out, 0, <<>>)
       /\ UNCHANGED <<api_key, cache, ai_summary, host>>

\* report_cache.invalidate_cache(report)
InvalidateCache(report, io) ==
    \E r \in {invalidate_cache(memory_cache, cache_file, Dict(report), io)} :
       /\ memory_cache' = r.mc
       /\ cache_file' = r.file
       /\ last' = Call("invalidate_cache", report, io = "ok", None, r.out, 0, <<>>)
       /\ UNCHANGED <<api_key, cache, ai_summary, host>>

\* report_cache.clear_cache()
ClearCache(io) ==
    \E r \in {clear_cache(memory_cache, cache_file, io)} :
       /\ memory_cache' = r.mc
       /\ cache_file' = r.file
       /\ last' = Call("clear_cache", "", io = "ok", None, r.out, 0, <<>>)
       /\ UNCHANGED <<api_key, cache, ai_summary, host>>

\* analyzer.generate_summary(report)
GenerateSummary(report, script) ==
    \E g \in {generate_summary(api_key, cache, Dict(report), script)} :
       \E m \in Printed(g.msg) :
          /\ cache' = g.cache
          /\ last' = [Call("generate_summary", report, FALSE, None, Return(g.ret),
                           g.calls, script) EXCEPT !.msg = m]
          /\ UNCHANGED <<api_key, memory_cache, cache_file, ai_summary, host>>

\* analyzer.validate_api_key()
ValidateApiKey(script) ==
    \E v \in {validate_api_key(api_key, script)} :
       /\ last' = Call("validate_api_key", "", FALSE, None, Return(v.ret),
                       v.calls, script)
       /\ UNCHANGED <<api_key, cache, memory_cache, cache_file, ai_summary, host>>

\* analyzer.clear_cache(): the in-memory cache
AnalyzerClearCache ==
    /\ cache' = EmptyDict
    /\ last' = Call("analyzer_clear_cache", "", FALSE, None, Return(None), 0, <<>>)
    /\ UNCHANGED <<api_key, memory_cache, cache_file, ai_summary, host>>

\* analyzer.generate_summary_for_report(report, force_refresh)
GenerateSummaryForReport(report, force_refresh, script, t, io) ==
    \E r \in {generate_summary_for_report(api_key, cache, memory_cache, cache_file,
                 ai_summary[report], Dict(report), force_refresh, script, t, io)} :
       /\ cache' = r.cache
       /\ memory_cache' = r.mc
       /\ cache_file' = r.file
       /\ ai_summary' = [ai_summary EXCEPT ![report] = r.ai]
       /\ last' = Call("generate_summary_for_report", report, force_refresh, None,
                       r.out, r.calls, script)
       /\ UNCHANGED <<api_key, host>>

\* analyzer.update_report_with_ai_summary(report, force_refresh)
UpdateReportWithAISummary(report, force_refresh, script, t, io) ==
    \E r \in {update_report_with_ai_summary(api_key, cache, memory_cache, cache_file,
                 ai_summary[report], Dict(report), force_refresh, script, t, io)} :
       /\ cache' = r.cache
       /\ memory_cache' = r.mc
       /\ cache_file' = r.file
       /\ ai_summary' = [ai_summary EXCEPT ![report] = r.ai]
       /\ last' = Call("update_report_with_ai_summary", report, force_refresh, None,
                       r.out, r.calls, script)
       /\ UNCHANGED <<api_key, host>>

\* analyzer.invalidate_report_cache(report)
InvalidateReportCache(report, io) ==
    \E r \in {invalidate_cache(memory_cache, cache_file, Dict(report), io)} :
       /\ ai_summary' = [ai_summary EXCEPT ![report] = None]
       /\ memory_cache' = r.mc
       /\ cache_file' = r.file
       /\ last' = Call("invalidate_report_cache", report, io = "ok", None, r.out,
                       0, <<>>)
       /\ UNCHANGED <<api_key, cache, host>>

\* the process ends (a crash or a normal exit) and the host starts again:
\* the reports are loaded anew and a new analyzer and a new ReportAICache
\* are constructed over the same cache file
Restart ==
    /\ cache' = EmptyDict
    /\ memory_cache' = load_persistent_cache(cache_file)
    /\ ai_summary' \in [Reports -> LoadedSummaries]
    /\ last' = Call("restart", "", FALSE, None, Return(None), 0, <<>>)
    /\ UNCHANGED <<api_key, cache_file, host>>

----------------------------------------------------------------------------
(* Spec: a host driving one EnhancedAIAnalyzer *)

Init ==
    /\ api_key \in ApiKeys
    /\ cache = EmptyDict
    /\ cache_file \in InitialFiles
    /\ memory_cache = load_persistent_cache(cache_file)
    /\ ai_summary \in [Reports -> LoadedSummaries]
    /\ last = Started
    /\ HostIdle

\* the report the host asks summaries for
Asked == {"A"}

Next ==
    \/ \E r \in Asked, sc \in OneAnswerScripts : GenerateSummary(r, sc)
    \/ \E sc \in OneAnswerScripts : ValidateApiKey(sc)
    \/ AnalyzerClearCache
    \/ \E r \in Asked, f \in BOOLEAN, sc \in OneAnswerScripts, t \in Times,
          io \in IOOutcomes : GenerateSummaryForReport(r, f, sc, t, io)
    \/ \E r \in Asked, f \in BOOLEAN, sc \in OneAnswerScripts, t \in Times,
          io \in IOOutcomes : UpdateReportWithAISummary(r, f, sc, t, io)
    \/ \E r \in Asked, io \in IOOutcomes : InvalidateReportCache(r, io)
    \/ Restart

Spec == Init /\ [][Next]_vars

----------------------------------------------------------------------------
(* CacheSpec: a host driving one ReportAICache *)

CacheInit ==
    /\ api_key = None
    /\ cache = EmptyDict
    /\ cache_file \in InitialFiles
    /\ memory_cache = load_persistent_cache(cache_file)
    /\ ai_summary \in [Reports -> LoadedSummaries]
    /\ last = Started
    /\ HostIdle

CacheNext ==
    \/ \E r \in Reports : GetCachedSummary(r)
    \/ \E r \in Reports, s \in Summaries, t \in Times, io \in IOOutcomes :
          CacheSummary(r, s, t, io)
    \/ \E r \in Reports, io \in IOOutcomes : InvalidateCache(r, io)
    \/ \E io \in IOOutcomes : ClearCache(io)
    \/ Restart

CacheSpec == CacheInit /\ [][CacheNext]_vars

----------------------------------------------------------------------------
(* GenSpec: a host driving one AIAnalyzer against an endpoint that answers  *)
(* the attempts of each request by a script                                 *)

GenInit ==
    /\ api_key \in ApiKeys
    /\ cache = EmptyDict
    /\ cache_file = FileAbsent
    /\ memory_cache = load_persistent_cache(cache_file)
    /\ ai_summary = [r \in Reports |-> None]
    /\ last = Started
    /\ HostIdle

GenNext ==
    \/ \E r \in Asked, sc \in Scripts : GenerateSummary(r, sc)
    \/ AnalyzerClearCache

GenSpec == GenInit /\ [][GenNext]_vars

----------------------------------------------------------------------------
(* KeySpec: a host taking the fingerprint of one report and caching a       *)
(* summary for it                                                           *)

\* a report has at most MaxVulns vulnerabilities
MaxVulns == 2

KeySubdomains ==
    {<<>>, <<"www.a.com">>, <<"www.a.com", "api.a.com">>,
     <<"api.a.com", "www.a.com">>, <<"www.a.com", "www.a.com">>}

KeyPorts ==
    {<<>>, << <<"80", "http">> >>, << <<"80", "http">>, <<"443", "https">> >>,
     << <<"443", "https">>, <<"80", "http">> >>}

Vuln(severity, title) ==
    [severity |-> severity, title |-> title, affected_service |-> "http",
     cve_id |-> "CVE-1"]

\* vulnerabilities as the loader lets them through: dicts, with or without
\* a description
KeyVulns ==
    {DictSet(Vuln("high", "SQLi"), "description", d) : d \in {"d1", "d2", ""}}
    \cup {Vuln("high", "SQLi"),
          DictSet(Vuln("high", "CSRF"), "description", "d1"),
          DictSet(Vuln("low", "SQLi"), "description", "d1")}

KeyDicts ==
    {[target |-> "a.com", scan_date |-> "2025-01-15", subdomains |-> sd,
      open_ports |-> op, vulnerabilities |-> vs] :
        sd \in KeySubdomains, op \in KeyPorts, vs \in SeqsUpTo(KeyVulns, MaxVulns)}

\* report_cache.get_cache_key(subject)
GetCacheKey ==
    /\ last' = Call("get_cache_key", "", FALSE, None,
                    Return(get_cache_key(subject)), 0, <<>>)
    /\ UNCHANGED <<api_key, cache, memory_cache, cache_file, ai_summary, host>>

\* report_cache.cache_summary(subject, summary)
CacheSubjectSummary(summary, t, io) ==
    \E r \in {cache_summary(memory_cache, cache_file, subject, summary, t, io)} :
       /\ memory_cache' = r.mc
       /\ cache_file' = r.file
       /\ last' = Call("cache_summary", "", io = "ok", summary, r.out, 0, <<>>)
       /\ UNCHANGED <<api_key, cache, ai_summary, host>>

KeyInit ==
    /\ api_key = None
    /\ cache = EmptyDict
    /\ cache_file = FileAbsent
    /\ memory_cache = load_persistent_cache(cache_file)
    /\ ai_summary = [r \in Reports |-> None]
    /\ last = Started
    /\ subject \in KeyDicts
    /\ directory = EmptyDict
    /\ reports = <<>>
    /\ log = <<>>

KeyNext ==
    \/ GetCacheKey
    \/ \E s \in Summaries, t \in Times : CacheSubjectSummary(s, t, "ok")

KeySpec == KeyInit /\ [][KeyNext]_vars

----------------------------------------------------------------------------
(* ReportLoader (src/src/loader.py).  A JSON value as json.load returns it  *)
(* is a record of its Python type and its value: a text for a str, a        *)
(* sequence of JSON values for a list, a function from keys to JSON values  *)
(* for a dict.  json.load gives None for null.                              *)

JNull == [type |-> "NoneType", val |-> <<>>]
JInt(n) == [type |-> "int", val |-> n]
JStr(s) == [type |-> "str", val |-> s]
JList(s) == [type |-> "list", val |-> s]
JDict(d) == [type |-> "dict", val |-> d]

\* isinstance(x, t)
isinstance(x, t) == x.type = t

\* the truth value of a JSON value
JTruthy(x) ==
    CASE x.type = "NoneType" -> FALSE
      [] x.type = "int" -> x.val # 0
      [] x.type = "str" -> x.val # <<>>
      [] x.type = "list" -> x.val # <<>>
      [] x.type = "dict" -> DOMAIN x.val # {}

\* a logger call: the level, the message and the file path in its text
\* (<<>> when the text names no file)
Logged(level, msg, file) == [level |-> level, msg |-> msg, file |-> file]

\* str.lower() on the characters of the file names
Lower(c) ==
    CASE c = "J" -> "j" [] c = "S" -> "s" [] c = "O" -> "o" [] c = "N" -> "n"
      [] c = "B" -> "b" [] OTHER -> c

lower(s) == [i \in 1..Len(s) |-> Lower(s[i])]

endswith(s, suffix) ==
    /\ Len(s) >= Len(suffix)
    /\ SubSeq(s, Len(s) - Len(suffix) + 1, Len(s)) = suffix

DotJson == <<".", "j", "s", "o", "n">>

\* ReportLoader.get_report_files: the names os.listdir gave, in its order,
\* that end in .json whatever the case
RECURSIVE get_report_files(_)
get_report_files(listing) ==
    IF listing = <<>> THEN <<>>
    ELSE IF endswith(lower(Head(listing)), DotJson)
    THEN <<Head(listing)>> \o get_report_files(Tail(listing))
    ELSE get_report_files(Tail(listing))

\* what a file holds: text json.load parses to doc, text it cannot parse,
\* or nothing open() can read
Parsable(doc) == [kind |-> "json", doc |-> doc]
Unparsable == [kind |-> "unparsable", doc |-> JNull]
Unreadable == [kind |-> "unreadable", doc |-> JNull]

\* ReportLoader._parse_json_report: the data or None, and what it logged
parse_json_report(path, content) ==
    CASE content.kind = "json" -> [ret |-> content.doc, log |-> <<>>]
      [] content.kind = "unparsable" ->
           [ret |-> JNull, log |-> <<Logged("ERROR", "Invalid JSON in file", path)>>]
      [] content.kind = "unreadable" ->
           [ret |-> JNull,
            log |-> <<Logged("ERROR", "Permission denied reading file", path)>>]

\* every element of the sequence s has the type t
AllOfType(s, t) == \A i \in 1..Len(s) : isinstance(s[i], t)

\* a validate_report_schema that looks at the containers, not into them
validate_report_schema_containers(report) ==
    LET no(msg) == [ret |-> FALSE, log |-> <<Logged("ERROR", msg, <<>>)>>]
        r == report.val
        required == {"target", "scan_date", "subdomains", "open_ports",
                     "vulnerabilities"}
    IN IF ~isinstance(report, "dict") THEN no("Report is not a dictionary")
       ELSE IF ~(required \subseteq DOMAIN r) THEN no("Missing required field")
       ELSE IF ~isinstance(r.target, "str") \/ Strip(r.target.val) = <<>>
       THEN no("Field 'target' must be a non-empty string")
       ELSE IF ~isinstance(r.scan_date, "str") \/ Strip(r.scan_date.val) = <<>>
       THEN no("Field 'scan_date' must be a non-empty string")
       ELSE IF ~isinstance(r.subdomains, "list")
       THEN no("Field 'subdomains' must be a list")
       ELSE IF ~isinstance(r.open_ports, "dict")
       THEN no("Field 'open_ports' must be a dictionary")
       ELSE IF ~isinstance(r.vulnerabilities, "list")
       THEN no("Field 'vulnerabilities' must be a list")
       ELSE [ret |-> TRUE, log |-> <<>>]

\* ReportLoader.validate_report_schema: the verdict and what it logged
validate_report_schema(report) ==
    LET no(msg) == [ret |-> FALSE, log |-> <<Logged("ERROR", msg, <<>>)>>]
        r == report.val
        required == {"target", "scan_date", "subdomains", "open_ports",
                     "vulnerabilities"}
    IN IF ~isinstance(report, "dict") THEN no("Report is not a dictionary")
       ELSE IF ~(required \subseteq DOMAIN r) THEN no("Missing required field")
       ELSE IF ~isinstance(r.target, "str") \/ Strip(r.target.val) = <<>>
       THEN no("Field 'target' must be a non-empty string")
       ELSE IF ~isinstance(r.scan_date, "str") \/ Strip(r.scan_date.val) = <<>>
       THEN no("Field 'scan_date' must be a non-empty string")
       ELSE IF ~isinstance(r.subdomains, "list")
       THEN no("Field 'subdomains' must be a list")
       ELSE IF ~AllOfType(r.subdomains.val, "str")
       THEN no("All subdomains must be strings")
       ELSE IF ~isinstance(r.open_ports, "dict")
       THEN no("Field 'open_ports' must be a dictionary")
       ELSE IF \E k \in DOMAIN r.open_ports.val : ~isinstance(r.open_ports.val[k], "str")
       THEN no("All open_ports keys and values must be strings")
       ELSE IF ~isinstance(r.vulnerabilities, "list")
       THEN no("Field 'vulnerabilities' must be a list")
       ELSE IF ~AllOfType(r.vulnerabilities.val, "dict")
       THEN no("All vulnerabilities must be dictionaries")
       ELSE IF /\ "ai_summary" \in DOMAIN r
               /\ ~isinstance(r.ai_summary, "NoneType")
               /\ ~isinstance(r.ai_summary, "str")
       THEN no("Field 'ai_summary' must be a string or None")
       ELSE [ret |-> TRUE, log |-> <<>>]

\* a loop body that gives up the reports loaded so far at a file it rejects
load_one_aborting(dir, path, acc) ==
    LET parsed == parse_json_report(path, dir[path])
        checked == validate_report_schema(parsed.ret)
    IN IF ~JTruthy(parsed.ret)
       THEN [reports |-> <<>>,
             log |-> acc.log \o parsed.log
                     \o <<Logged("WARNING", "Invalid report schema in file", path)>>]
       ELSE IF checked.ret
       THEN [reports |-> Append(acc.reports, parsed.ret),
             log |-> acc.log \o <<Logged("DEBUG", "Successfully loaded report", path)>>]
       ELSE [reports |-> <<>>,
             log |-> acc.log \o checked.log
                     \o <<Logged("WARNING", "Invalid report schema in file", path)>>]

\* the body of the loop of load_reports for one file: the reports and the
\* log after it
load_one(dir, path, acc) ==
    LET parsed == parse_json_report(path, dir[path])
        checked == validate_report_schema(parsed.ret)
    IN IF ~JTruthy(parsed.ret)
       THEN [reports |-> acc.reports,
             log |-> acc.log \o parsed.log
                     \o <<Logged("WARNING", "Invalid report schema in file", path)>>]
       ELSE IF checked.ret
       THEN [reports |-> Append(acc.reports, parsed.ret),
             log |-> acc.log \o <<Logged("DEBUG", "Successfully loaded report", path)>>]
       ELSE [reports |-> acc.reports,
             log |-> acc.log \o checked.log
                     \o <<Logged("WARNING", "Invalid report schema in file", path)>>]

RECURSIVE load_files(_, _, _)
load_files(dir, json_files, acc) ==
    IF json_files = <<>> THEN acc
    ELSE load_files(dir, Tail(json_files), load_one(dir, Head(json_files), acc))

\* no directory at the path
Missing == [exists |-> FALSE, files |-> EmptyDict]
Directory(files) == [exists |-> TRUE, files |-> files]

\* ReportLoader.load_reports(directory_path), os.listdir giving listing:
\* the list returned and what was logged
load_reports(dir, listing) ==
    IF ~dir.exists
    THEN [reports |-> <<>>,
          log |-> <<Logged("WARNING", "Reports directory does not exist", <<>>)>>]
    ELSE IF get_report_files(listing) = <<>>
    THEN [reports |-> <<>>,
          log |-> <<Logged("INFO", "No JSON files found in directory", <<>>)>>]
    ELSE The({[reports |-> r.reports,
               log |-> Append(r.log, Logged("INFO", "Loaded valid reports", <<>>))] :
                 r \in {load_files(dir.files, get_report_files(listing),
                                   [reports |-> <<>>, log |-> <<>>])}})

----------------------------------------------------------------------------
(* LoadSpec: a host loading a reports directory                             *)

GoodFields ==
    [target |-> JStr(<<"a">>), scan_date |-> JStr(<<"d">>),
     subdomains |-> JList(<<JStr(<<"w">>)>>),
     open_ports |-> JDict([k \in {"80"} |-> JStr(<<"h">>)]),
     vulnerabilities |-> JList(<<JDict(EmptyDict)>>)]

\* documents that match the schema
GoodDocs ==
    {JDict(GoodFields),
     JDict([GoodFields EXCEPT !.target = JStr(<<"b">>)]),
     JDict(DictSet(GoodFields, "ai_summary", JStr(<<"s">>))),
     JDict(DictSet(GoodFields, "ai_summary", JNull)),
     JDict([GoodFields EXCEPT !.subdomains = JList(<<>>),
                              !.open_ports = JDict(EmptyDict),
                              !.vulnerabilities = JList(<<>>)])}

\* documents that do not: no dict, a field missing, a field of a wrong type
BadDocs ==
    {JNull, JList(<<>>), JList(<<JInt(1)>>), JDict(EmptyDict),
     JDict([k \in DOMAIN GoodFields \ {"vulnerabilities"} |-> GoodFields[k]])}
    \cup {JDict([GoodFields EXCEPT !.target = x]) :
             x \in {JInt(1), JStr(<<>>), JStr(<<" ">>)}}
    \cup {JDict([GoodFields EXCEPT !.scan_date = x]) : x \in {JNull, JStr(<<" ">>)}}
    \cup {JDict([GoodFields EXCEPT !.subdomains = x]) :
             x \in {JStr(<<"w">>), JList(<<JStr(<<"w">>), JInt(1)>>)}}
    \cup {JDict([GoodFields EXCEPT !.open_ports = x]) :
             x \in {JList(<<>>), JDict([k \in {"80"} |-> JInt(80)])}}
    \cup {JDict([GoodFields EXCEPT !.vulnerabilities = x]) :
             x \in {JDict(EmptyDict), JList(<<JDict(EmptyDict), JStr(<<"v">>)>>)}}
    \cup {JDict(DictSet(GoodFields, "ai_summary", JInt(1)))}

FileContents ==
    {Parsable(doc) : doc \in GoodDocs \cup BadDocs} \cup {Unparsable, Unreadable}

\* the names a file of the directory can have
JsonName == <<"a", ".", "j", "s", "o", "n">>
UpperName == <<"B", ".", "J", "S", "O", "N">>
TextName == <<"c", ".", "t", "x", "t">>

\* the directories: each of the two .json names absent or with any content,
\* with or without a file of another extension
Directories ==
    {Directory(f) :
        f \in UNION {[names -> FileContents] : names \in SUBSET {JsonName, UpperName}}}
    \cup {Directory(DictSet(f, TextName, c)) :
             f \in UNION {[names -> FileContents] : names \in SUBSET {JsonName, UpperName}},
             c \in {Unparsable, Parsable(JDict(GoodFields))}}

\* the orders os.listdir can give the names in
Listings(dir) ==
    {s \in SeqsUpTo(DOMAIN dir.files, Cardinality(DOMAIN dir.files)) :
        /\ Len(s) = Cardinality(DOMAIN dir.files)
        /\ \A n \in DOMAIN dir.files : \E i \in 1..Len(s) : s[i] = n}

\* loader.load_reports(directory_path)
LoadReports(listing) ==
    \E r \in {load_reports(directory, listing)} :
       /\ reports' = r.reports
       /\ log' = r.log
       /\ last' = Call("load_reports", "", FALSE, None, Return(None), 0, <<>>)
       /\ UNCHANGED <<api_key, cache, memory_cache, cache_file, ai_summary,
                      subject, directory>>

LoadInit ==
    /\ api_key = None
    /\ cache = EmptyDict
    /\ cache_file = FileAbsent
    /\ memory_cache = load_persistent_cache(cache_file)
    /\ ai_summary = [r \in Reports |-> None]
    /\ last = Started
    /\ subject = ReportA
    /\ directory \in Directories \cup {Missing}
    /\ reports = <<>>
    /\ log = <<>>

LoadNext == \E listing \in Listings(directory) : LoadReports(listing)

LoadSpec == LoadInit /\ [][LoadNext]_vars

----------------------------------------------------------------------------
(* ReportAnalytics (src/src/analytics.py) *)

\* the longest list of reports the host hands to calculate_kpis
MaxReports == 3

\* set.update raises TypeError on a member that cannot be hashed
Hashable(x) == x.type \notin {"list", "dict"}

\* round(total / count, 1) in tenths.  A tie is a quotient ending in 25 or 75
\* hundredths for every count below 20, a float holds these exactly and
\* round sends them to the even tenth.
Round1(total, count) ==
    LET q == (10 * total) \div count
        r == (10 * total) % count
    IN IF 2 * r < count THEN q
       ELSE IF 2 * r > count THEN q + 1
       ELSE IF q % 2 = 0 THEN q ELSE q + 1

\* the dictionary of metrics, avg_open_ports in tenths
Kpis(total_reports, total_subdomains, avg_open_ports, total_vulnerabilities) ==
    [total_reports |-> total_reports, total_subdomains |-> total_subdomains,
     avg_open_ports |-> avg_open_ports,
     total_vulnerabilities |-> total_vulnerabilities]

NoKpis == Kpis(0, 0, 0, 0)

\* the locals of calculate_kpis before its loop
NothingCounted ==
    [all_subdomains |-> {}, total_ports |-> 0, total_vulnerabilities |-> 0,
     raised |-> FALSE]

\* a loop body that keeps the subdomains of the last report only
count_report_last_subdomains(acc, report) ==
    IF acc.raised \/ ~isinstance(report, "dict") THEN acc
    ELSE LET r == report.val
             subdomains == "subdomains" \in DOMAIN r /\ isinstance(r.subdomains, "list")
             open_ports == "open_ports" \in DOMAIN r /\ isinstance(r.open_ports, "dict")
             vulnerabilities ==
                 "vulnerabilities" \in DOMAIN r /\ isinstance(r.vulnerabilities, "list")
         IN IF subdomains /\ \E i \in DOMAIN r.subdomains.val :
                                ~Hashable(r.subdomains.val[i])
            THEN [acc EXCEPT !.raised = TRUE]
            ELSE [all_subdomains |->
                      IF subdomains
                      THEN {r.subdomains.val[i] : i \in DOMAIN r.subdomains.val}
                      ELSE acc.all_subdomains,
                  total_ports |->
                      acc.total_ports
                      + (IF open_ports THEN Cardinality(DOMAIN r.open_ports.val) ELSE 0),
                  total_vulnerabilities |->
                      acc.total_vulnerabilities
                      + (IF vulnerabilities THEN Len(r.vulnerabilities.val) ELSE 0),
                  raised |-> FALSE]

\* the body of the loop of calculate_kpis for one element of the list; once
\* an exception is raised the rest of the loop does not run
count_report(acc, report) ==
    IF acc.raised \/ ~isinstance(report, "dict") THEN acc
    ELSE LET r == report.val
             subdomains == "subdomains" \in DOMAIN r /\ isinstance(r.subdomains, "list")
             open_ports == "open_ports" \in DOMAIN r /\ isinstance(r.open_ports, "dict")
             vulnerabilities ==
                 "vulnerabilities" \in DOMAIN r /\ isinstance(r.vulnerabilities, "list")
         IN IF subdomains /\ \E i \in DOMAIN r.subdomains.val :
                                ~Hashable(r.subdomains.val[i])
            THEN [acc EXCEPT !.raised = TRUE]
            ELSE [all_subdomains |->
                      acc.all_subdomains
                      \cup (IF subdomains
                            THEN {r.subdomains.val[i] : i \in DOMAIN r.subdomains.val}
                            ELSE {}),
                  total_ports |->
                      acc.total_ports
                      + (IF open_ports THEN Cardinality(DOMAIN r.open_ports.val) ELSE 0),
                  total_vulnerabilities |->
                      acc.total_vulnerabilities
                      + (IF vulnerabilities THEN Len(r.vulnerabilities.val) ELSE 0),
                  raised |-> FALSE]

RECURSIVE count_reports(_, _)
count_reports(acc, rs) ==
    IF rs = <<>> THEN acc ELSE count_reports(count_report(acc, Head(rs)), Tail(rs))

\* ReportAnalytics.calculate_kpis: the metrics and what it logged
calculate_kpis(rs) ==
    IF rs = <<>> THEN [ret |-> NoKpis, log |-> <<>>]
    ELSE LET counted == count_reports(NothingCounted, rs)
         IN IF counted.raised
            THEN [ret |-> NoKpis,
                  log |-> <<Logged("ERROR", "Error calculating KPIs", <<>>)>>]
            ELSE [ret |-> Kpis(Len(rs), Cardinality(counted.all_subdomains),
                               Round1(counted.total_ports, Len(rs)),
                               counted.total_vulnerabilities),
                  log |-> <<Logged("DEBUG", "Calculated KPIs", <<>>)>>]

----------------------------------------------------------------------------
(* KpiSpec: a host computing the metrics of a list of reports *)

KpiReport(subdomains, open_ports, vulnerabilities) ==
    JDict([target |-> JStr(<<"a">>), scan_date |-> JStr(<<"d">>),
           subdomains |-> subdomains, open_ports |-> open_ports,
           vulnerabilities |-> vulnerabilities])

Www == JStr(<<"w">>)
Api == JStr(<<"x">>)
Mail == JStr(<<"y">>)
Http == JDict([k \in {"80"} |-> JStr(<<"h">>)])
HttpAndSsh == JDict([k \in {"80", "22"} |-> JStr(<<"h">>)])
Finding == JDict(EmptyDict)

\* reports as load_reports returns them
WellFormed ==
    {KpiReport(JList(<<Www, Api>>), Http, JList(<<Finding>>)),
     KpiReport(JList(<<Api, Mail>>), HttpAndSsh, JList(<<Finding, Finding>>)),
     KpiReport(JList(<<Www, Www>>), JDict(EmptyDict), JList(<<Finding>>)),
     KpiReport(JList(<<>>), Http, JList(<<>>))}

\* elements that are no reports: no mapping, a field missing or of a wrong
\* type, a subdomain that is no string
Malformed ==
    {JNull, JStr(<<"r">>), JDict(EmptyDict),
     JDict([k \in {"subdomains"} |-> JStr(<<"n">>)]),
     KpiReport(JStr(<<"n">>), Http, JList(<<Finding>>)),
     KpiReport(JList(<<Www>>), JList(<<>>), JList(<<Finding>>)),
     KpiReport(JList(<<Www>>), Http, JNull),
     KpiReport(JList(<<Www, JInt(1)>>), Http, JList(<<Finding>>)),
     KpiReport(JList(<<JList(<<Www>>)>>), Http, JList(<<Finding>>)),
     KpiReport(JList(<<Api, JDict(EmptyDict)>>), Http, JList(<<Finding>>))}

\* analytics.calculate_kpis(reports)
CalculateKpis ==
    \E r \in {calculate_kpis(reports)} :
       /\ last' = Call("calculate_kpis", "", FALSE, None, Return(r.ret), 0, <<>>)
       /\ log' = r.log
       /\ UNCHANGED <<api_key, cache, memory_cache, cache_file, ai_summary,
                      subject, directory, reports>>

KpiInit ==
    /\ api_key = None
    /\ cache = EmptyDict
    /\ cache_file = FileAbsent
    /\ memory_cache = load_persistent_cache(cache_file)
    /\ ai_summary = [r \in Reports |-> None]
    /\ last = Started
    /\ subject = ReportA
    /\ directory = EmptyDict
    /\ reports \in SeqsUpTo(WellFormed \cup Malformed, MaxReports)
    /\ log = <<>>

KpiNext == CalculateKpis

KpiSpec == KpiInit /\ [][KpiNext]_vars

----------------------------------------------------------------------------
(* ReportAnalytics.filter_reports (src/src/analytics.py) *)

\* report.get(key, default)
JGet(report, key, default) ==
    IF key \in DOMAIN report.val THEN report.val[key] ELSE default

\* sub in s, of two strings
Contains(sub, s) ==
    \E i \in 0..(Len(s) - Len(sub)) : SubSeq(s, i + 1, i + Len(sub)) = sub

\* the fields of s between the separators
RECURSIVE Split(_, _)
Split(s, sep) ==
    IF s = <<>> THEN << <<>> >>
    ELSE LET rest == Split(Tail(s), sep)
         IN IF Head(s) = sep THEN << <<>> >> \o rest
            ELSE << <<Head(s)>> \o Head(rest) >> \o Tail(rest)

\* the number a field of least to most digits stands for, -1 for any other
\* field
Number(field, least, most) ==
    LET DigitValue(c) ==
            CASE c = "0" -> 0 [] c = "1" -> 1 [] c = "2" -> 2 [] c = "3" -> 3
              [] c = "4" -> 4 [] c = "5" -> 5 [] c = "6" -> 6 [] c = "7" -> 7
              [] c = "8" -> 8 [] c = "9" -> 9 [] OTHER -> -1
        Upto[n \in 0..Len(field)] ==
            IF n = 0 THEN 0 ELSE 10 * Upto[n - 1] + DigitValue(field[n])
    IN IF /\ Len(field) \in least..most
          /\ \A i \in 1..Len(field) : DigitValue(field[i]) >= 0
       THEN Upto[Len(field)] ELSE -1

\* the formats _parse_date tries, in its order: the separator of the date,
\* whether the year comes first, whether a time of day follows
date_formats ==
    <<[sep |-> "-", year_first |-> TRUE, time |-> FALSE],
      [sep |-> "/", year_first |-> TRUE, time |-> FALSE],
      [sep |-> "-", year_first |-> FALSE, time |-> FALSE],
      [sep |-> "/", year_first |-> FALSE, time |-> FALSE],
      [sep |-> "-", year_first |-> TRUE, time |-> TRUE],
      [sep |-> "/", year_first |-> TRUE, time |-> TRUE]>>

\* datetime.strptime(s, fmt): a datetime as year, month, day, hour, minute and
\* second, or None for the ValueError
strptime(s, fmt) ==
    LET words == SelectSeq(Split(s, " "), LAMBDA w : w # <<>>)
        shaped == IF fmt.time THEN Len(words) = 2 ELSE Len(words) = 1 /\ words[1] = s
        date == Split(words[1], fmt.sep)
        time == IF fmt.time THEN Split(words[2], ":") ELSE <<<<"0">>, <<"0">>, <<"0">>>>
        DaysIn(year, month) ==
            IF month \in {4, 6, 9, 11} THEN 30
            ELSE IF month # 2 THEN 31
            ELSE IF year % 4 = 0 /\ (year % 100 # 0 \/ year % 400 = 0) THEN 29
            ELSE 28
    IN IF ~shaped \/ Len(date) # 3 \/ Len(time) # 3 THEN None
       ELSE LET year == Number(date[IF fmt.year_first THEN 1 ELSE 3], 4, 4)
                month == Number(date[2], 1, 2)
                day == Number(date[IF fmt.year_first THEN 3 ELSE 1], 1, 2)
                hour == Number(time[1], 1, 2)
                minute == Number(time[2], 1, 2)
                second == Number(time[3], 1, 2)
            IN IF /\ year >= 1
                  /\ month \in 1..12
                  /\ day >= 1 /\ day <= DaysIn(year, month)
                  /\ hour \in 0..23 /\ minute \in 0..59 /\ second \in 0..61
               THEN <<year, month, day, hour, minute, second>>
               ELSE None

\* the loop of _parse_date over the formats not tried yet: the first that
\* parses wins
RECURSIVE parse_with(_, _)
parse_with(date_string, formats) ==
    IF formats = <<>> THEN None
    ELSE LET parsed == strptime(Strip(date_string), Head(formats))
         IN IF parsed # None THEN parsed ELSE parse_with(date_string, Tail(formats))

\* ReportAnalytics._parse_date
parse_date(date_string) == parse_with(date_string, date_formats)

\* a.date() <= b.date(): the year, month and day of a and b compared, their
\* times of day left out
DayLe(a, b) ==
    \/ a[1] < b[1]
    \/ a[1] = b[1] /\ a[2] < b[2]
    \/ a[1] = b[1] /\ a[2] = b[2] /\ a[3] <= b[3]

\* the test of the target filter: report.get('target', '') in selected_targets
in_selected_targets(report, selected_targets) ==
    \E i \in DOMAIN selected_targets :
        selected_targets[i] = JGet(report, "target", JStr(<<>>))

\* a date test that compares the time of the scan with the bounds at midnight
in_date_range_to_the_second(report, start_date, end_date) ==
    LET scan_date_str == JGet(report, "scan_date", JStr(<<>>))
        scan_date == parse_date(scan_date_str.val)
    IN /\ JTruthy(scan_date_str)
       /\ isinstance(scan_date_str, "str")
       /\ scan_date # None
       /\ DayLe(start_date, scan_date)
       /\ DayLe(scan_date, end_date)
       /\ DayLe(end_date, scan_date) =>
             scan_date[4] = 0 /\ scan_date[5] = 0 /\ scan_date[6] = 0

\* the body of the loop of _filter_by_date_range: whether the report is
\* appended.  The bounds are dates; a scan_date that is no string raises
\* inside the try and the report is passed over.
in_date_range(report, start_date, end_date) ==
    LET scan_date_str == JGet(report, "scan_date", JStr(<<>>))
        scan_date == parse_date(scan_date_str.val)
    IN /\ JTruthy(scan_date_str)
       /\ isinstance(scan_date_str, "str")
       /\ scan_date # None
       /\ DayLe(start_date, scan_date)
       /\ DayLe(scan_date, end_date)

\* a date filter that hands the reports back in the opposite order
RECURSIVE filter_by_date_range_reversed(_, _, _)
filter_by_date_range_reversed(rs, start_date, end_date) ==
    IF rs = <<>> THEN <<>>
    ELSE filter_by_date_range_reversed(Tail(rs), start_date, end_date)
         \o (IF in_date_range(Head(rs), start_date, end_date) THEN <<Head(rs)>> ELSE <<>>)

\* ReportAnalytics._filter_by_date_range over mappings
filter_by_date_range(rs, start_date, end_date) ==
    SelectSeq(rs, LAMBDA report : in_date_range(report, start_date, end_date))

\* the body of the loop of _filter_by_keyword: match_found.  An element that
\* is no mapping raises inside the try and is passed over.
match_found(report, keyword_lower) ==
    LET Mentions(x) == isinstance(x, "str") /\ Contains(keyword_lower, lower(x.val))
        subdomains == JGet(report, "subdomains", JList(<<>>))
        vulnerabilities == JGet(report, "vulnerabilities", JList(<<>>))
        open_ports == JGet(report, "open_ports", JDict(EmptyDict))
    IN /\ isinstance(report, "dict")
       /\ \/ Mentions(JGet(report, "target", JStr(<<>>)))
          \/ /\ isinstance(subdomains, "list")
             /\ \E i \in DOMAIN subdomains.val : Mentions(subdomains.val[i])
          \/ /\ isinstance(vulnerabilities, "list")
             /\ \E i \in DOMAIN vulnerabilities.val :
                   /\ isinstance(vulnerabilities.val[i], "dict")
                   /\ \E k \in {"title", "description", "affected_service"} :
                         Mentions(JGet(vulnerabilities.val[i], k, JStr(<<>>)))
          \/ /\ isinstance(open_ports, "dict")
             /\ \E port \in DOMAIN open_ports.val :
                   \/ Mentions(open_ports.val[port])
                   \/ Contains(keyword_lower, lower(port))

\* ReportAnalytics._filter_by_keyword
filter_by_keyword(rs, keyword) ==
    IF keyword = <<>> THEN rs
    ELSE SelectSeq(rs, LAMBDA report : match_found(report, lower(keyword)))

\* an ai_summary test that takes every string for a summary
has_ai_summary_any_string(report) == JGet(report, "ai_summary", JNull) # JNull

\* the test of the ai_summary filter: ai_summary is not None and
\* ai_summary.strip() is not empty
has_ai_summary(report) ==
    /\ JGet(report, "ai_summary", JNull) # JNull
    /\ Strip(JGet(report, "ai_summary", JStr(<<>>)).val) # <<>>

\* ReportAnalytics.filter_reports: the list returned and what it logged.
\* report.get raises AttributeError on an element that is no mapping and
\* ai_summary.strip() on a value that is no string; the exception is caught
\* and the list handed in is returned.
filter_reports(rs, filters) ==
    LET selected_targets == Get(filters, "selected_targets", <<>>)
        date_range == Get(filters, "date_range", None)
        keyword_search == Strip(Get(filters, "keyword_search", <<>>))
        show_ai_summaries == Get(filters, "show_ai_summaries", None)
        both_bounds ==
            /\ date_range # None /\ Len(date_range) = 2
            /\ date_range[1] # None /\ date_range[2] # None
        Gets(l) == \A i \in DOMAIN l : isinstance(l[i], "dict")
        Strips(l) ==
            \A i \in DOMAIN l :
                JGet(l[i], "ai_summary", JNull).type \in {"NoneType", "str"}
        After(msg, on) == IF on THEN <<Logged("DEBUG", msg, <<>>)>> ELSE <<>>
        failed == [ret |-> rs,
                   log |-> <<Logged("ERROR", "Error filtering reports", <<>>)>>]
        by_target ==
            IF selected_targets # <<>>
            THEN SelectSeq(rs, LAMBDA r : in_selected_targets(r, selected_targets))
            ELSE rs
        by_date ==
            IF both_bounds
            THEN filter_by_date_range(by_target, date_range[1], date_range[2])
            ELSE by_target
        by_keyword ==
            IF keyword_search # <<>> THEN filter_by_keyword(by_date, keyword_search)
            ELSE by_date
        by_summary ==
            IF show_ai_summaries = None THEN by_keyword
            ELSE SelectSeq(by_keyword,
                           LAMBDA r : has_ai_summary(r) <=> show_ai_summaries = True)
    IN IF rs = <<>> THEN [ret |-> <<>>, log |-> <<>>]
       ELSE IF selected_targets # <<>> /\ ~Gets(rs) THEN failed
       ELSE IF both_bounds /\ ~Gets(by_target) THEN failed
       ELSE IF show_ai_summaries # None /\ ~(Gets(by_keyword) /\ Strips(by_keyword))
       THEN failed
       ELSE [ret |-> by_summary,
             log |-> After("After target filter", selected_targets # <<>>)
                     \o After("After date filter", both_bounds)
                     \o After("After keyword filter", keyword_search # <<>>)
                     \o After("After AI summary filter", show_ai_summaries # None)
                     \o <<Logged("INFO", "Filtered reports", <<>>)>>]

----------------------------------------------------------------------------
(* FilterSpec: a host narrowing its list of reports down *)

\* the longest list the host starts from
MaxListed == 2

\* a report of a scan: summary holds the value of ai_summary, or nothing
Scan(target, scan_date, description, summary) ==
    JDict([k \in {"target", "scan_date", "subdomains", "open_ports", "vulnerabilities"}
                 \cup (IF summary = <<>> THEN {} ELSE {"ai_summary"}) |->
             CASE k = "target" -> JStr(target)
               [] k = "scan_date" -> JStr(scan_date)
               [] k = "subdomains" -> JList(<<JStr(<<"w">>)>>)
               [] k = "open_ports" -> JDict([p \in {<<"2", "2">>} |-> JStr(<<"h">>)])
               [] k = "vulnerabilities" ->
                     JList(<<JDict([f \in {"description"} |-> JStr(description)])>>)
               [] k = "ai_summary" -> summary[1]])

\* validated reports, with dates in accepted and other formats, and a
\* report that is not validated
Listed ==
    {Scan(<<"S", "n">>, <<"2","0","2","5","-","0","1","-","1","5">>, <<"j">>, <<>>),
     Scan(<<"b">>, <<"2","0","2","5","/","0","1","/","1","6">>, <<"s", "n">>,
          <<JStr(<<"t">>)>>),
     Scan(<<"b">>, <<"1","5","-","0","1","-","2","0","2","5">>, <<"j">>,
          <<JStr(<<" ">>)>>),
     Scan(<<"o">>,
          <<"2","0","2","5","-","0","1","-","1","5"," ","1","0",":","3","0",":","0","0">>,
          <<"j">>, <<JNull>>),
     Scan(<<"S", "n">>,
          <<"1","6","-","0","1","-","2","0","2","5"," ","1","0",":","3","0",":","0","0">>,
          <<"j">>, <<JStr(<<"t">>)>>),
     Scan(<<"b">>, <<"2","0","2","5","-","0","2","-","3","0">>, <<"j">>, <<JInt(1)>>)}

\* the values the widgets of the host give each criterion
Widgets ==
    [selected_targets |-> {<<>>, <<JStr(<<"S", "n">>)>>,
                           <<JStr(<<"b">>), JStr(<<"o">>)>>, <<JStr(<<"z">>)>>},
     date_range |-> {None, <<<<2025, 1, 15>>, <<2025, 1, 15>>>>,
                     <<<<2025, 1, 15>>, <<2025, 1, 16>>>>, <<<<2025, 1, 16>>, None>>},
     keyword_search |-> {<<>>, <<" ">>, <<" ", "S">>},
     show_ai_summaries |-> {None, True, False}]

\* no criterion is active
NoCriteria ==
    [selected_targets |-> <<>>, date_range |-> None, keyword_search |-> <<>>,
     show_ai_summaries |-> None]

\* analytics.filter_reports(reports, filters), the host keeping the list it
\* loaded and the criteria it asked for
FilterReports(filters) ==
    \E r \in {filter_reports(reports, filters)} :
       /\ last' = Call("filter_reports", "", FALSE, filters, Return(r.ret), 0, <<>>)
       /\ log' = r.log
       /\ UNCHANGED <<api_key, cache, memory_cache, cache_file, ai_summary,
                      subject, directory, reports>>

\* the host after its first run, no widget touched
FilterInit ==
    /\ api_key = None
    /\ cache = EmptyDict
    /\ cache_file = FileAbsent
    /\ memory_cache = load_persistent_cache(cache_file)
    /\ ai_summary = [r \in Reports |-> None]
    /\ subject = ReportA
    /\ directory = EmptyDict
    /\ reports \in SeqsUpTo(Listed, MaxListed)
    /\ last = Call("filter_reports", "", FALSE, NoCriteria,
                   Return(filter_reports(reports, NoCriteria).ret), 0, <<>>)
    /\ log = filter_reports(reports, NoCriteria).log

\* the user changes one widget and the host filters its list again
FilterNext ==
    \E k \in DOMAIN Widgets :
        \E v \in Widgets[k] \ {last.arg[k]} :
            FilterReports([last.arg EXCEPT ![k] = v])

FilterSpec == FilterInit /\ [][FilterNext]_vars

----------------------------------------------------------------------------
(* BatchSpec: a host asking one EnhancedAIAnalyzer for the summaries of a   *)
(* list of reports                                                          *)

\* EnhancedAIAnalyzer.batch_generate_summaries(reports, force_refresh,
\* progress_callback) from the i-th report on, the endpoint playing
\* scripts[i] for the request of the i-th report.  st is the state so far:
\* the results dict (or the exception that escaped), the transport
\* attempts, the caches, the cache file, the reports' ai_summary and the
\* calls progress_callback has received
RECURSIVE batch_generate_summaries(_, _, _, _, _, _, _, _)
batch_generate_summaries(key, st, rs, i, force_refresh, scripts, t, io) ==
    IF i > Len(rs) \/ st.out.raised THEN st
    ELSE The({batch_generate_summaries(key,
                 [out |-> IF r.out.raised THEN r.out
                          ELSE IF Truthy(r.out.ret)
                          THEN Return(DictSet(st.out.ret,
                                              Get(Dict(rs[i]), "target", <<"report", i - 1>>),
                                              r.out.ret))
                          ELSE st.out,
                  calls |-> st.calls + r.calls,
                  cache |-> r.cache, mc |-> r.mc, file |-> r.file,
                  ai |-> [st.ai EXCEPT ![rs[i]] = r.ai],
                  progress |-> Append(st.progress,
                                  <<i - 1, Len(rs),
                                    Get(Dict(rs[i]), "target", <<"report", i - 1>>)>>)],
                 rs, i + 1, force_refresh, scripts, t, io) :
              r \in {generate_summary_for_report(key, st.cache, st.mc, st.file,
                        st.ai[rs[i]], Dict(rs[i]), force_refresh, scripts[i], t, io)}})

\* analyzer.batch_generate_summaries(rs, force_refresh, progress_callback);
\* last.arg holds the calls progress_callback received
BatchGenerateSummaries(rs, force_refresh, scripts, t, io) ==
    \E b \in {batch_generate_summaries(api_key,
                 [out |-> Return(EmptyDict), calls |-> 0, cache |-> cache,
                  mc |-> memory_cache, file |-> cache_file, ai |-> ai_summary,
                  progress |-> <<>>],
                 rs, 1, force_refresh, scripts, t, io)} :
       /\ cache' = b.cache
       /\ memory_cache' = b.mc
       /\ cache_file' = b.file
       /\ ai_summary' = b.ai
       /\ last' = Call("batch_generate_summaries", rs, force_refresh, b.progress,
                       b.out, b.calls, scripts)
       /\ UNCHANGED <<api_key, host>>

\* the host asks for one or both reports; the endpoint answers the request
\* of each with a completion or refuses the key
BatchNext ==
    \/ \E rs \in {<<"A">>, <<"A", "B">>, <<"B", "A">>}, f \in BOOLEAN, t \in Times,
          io \in IOOutcomes :
          \E scripts \in [1..Len(rs) -> {<<Response(200, Body("content", <<"a">>))>>,
                                         <<Response(401, NoBody)>>}] :
             BatchGenerateSummaries(rs, f, scripts, t, io)
    \/ \E r \in Reports : InvalidateReportCache(r, "ok")
    \/ AnalyzerClearCache
    \/ Restart

BatchSpec == Init /\ [][BatchNext]_vars

----------------------------------------------------------------------------
(* CrashSpec: the host of CacheSpec, whose process can also die inside      *)
(* save_persistent_cache                                                    *)

\* the process dies while cache_summary, invalidate_cache or clear_cache is
\* in save_persistent_cache, and the host starts again.  The write is
\* open(cache_file, 'w') followed by json.dump into the open file: the file
\* is left as it was (open not reached), truncated or holding a prefix of
\* the new document (not parsable), or complete (json.dump has finished).
\* last.arg is the memory_cache that was being written
CrashInSave ==
    \E w \in {cache_summary(memory_cache, cache_file, Dict(r), s, t, "ok") :
                 r \in Reports, s \in Summaries, t \in Times}
             \cup {invalidate_cache(memory_cache, cache_file, Dict(r), "ok") :
                      r \in Reports}
             \cup {clear_cache(memory_cache, cache_file, "ok")} :
       /\ w.out \in {Return(None), Return(True)}
       /\ cache_file' \in {cache_file, FileGarbage, FileJson(w.mc)}
       /\ memory_cache' = load_persistent_cache(cache_file')
       /\ cache' = EmptyDict
       /\ ai_summary' \in [Reports -> LoadedSummaries]
       /\ last' = Call("crash", "", FALSE, w.mc, Return(None), 0, <<>>)
       /\ UNCHANGED <<api_key, host>>

CrashSpec == CacheInit /\ [][CacheNext \/ CrashInSave]_vars

----------------------------------------------------------------------------
(* Properties *)

GenForReportOps == {"generate_summary_for_report", "update_report_with_ai_summary"}

\* the last call was a generation that made a request and gave no summary
FailedGeneration(l) ==
    /\ l.op \in GenForReportOps
    /\ ~l.raised
    /\ l.calls > 0
    /\ IF l.op = "update_report_with_ai_summary" THEN l.ret = False ELSE ~Truthy(l.ret)

\* the entry of report r in a memory_cache, None when there is none
EntrySummary(mc, r) ==
    IF mc.shape = "dict" /\ get_cache_key(Dict(r)) \in DOMAIN mc.items
    THEN mc.items[get_cache_key(Dict(r))].summary
    ELSE None

HasEntry(mc, r) == mc.shape = "dict" /\ get_cache_key(Dict(r)) \in DOMAIN mc.items

\* C1 (as claimed): a generation through generate_summary_for_report or
\* update_report_with_ai_summary that gives no summary leaves the reports'
\* ai_summary, the ReportAICache, its file and the analyzer's in-memory
\* cache as they were.
C1_FailedGenerationChangesNothing ==
    [][FailedGeneration(last') =>
          /\ ai_summary' = ai_summary
          /\ memory_cache' = memory_cache
          /\ cache_file' = cache_file
          /\ cache' = cache]_vars

C4_PutIsDurable ==
    (last.op = "cache_summary" /\ ~last.raised) =>
        EntrySummary(load_persistent_cache(cache_file), last.report) = last.arg

\* C5 (as claimed): an entry stays in the cache, unchanged, through every
\* call and every restart, until an invalidation or a put of its own report
\* or a clear_cache.
C5_NoImplicitExpiry ==
    [][\A r \in Reports :
          (/\ HasEntry(memory_cache, r)
           /\ last'.op # "clear_cache"
           /\ ~(/\ last'.op \in {"invalidate_cache", "invalidate_report_cache",
                                 "cache_summary"}
                /\ get_cache_key(Dict(last'.report)) = get_cache_key(Dict(r))))
          => /\ HasEntry(memory_cache', r)
             /\ memory_cache'.items[get_cache_key(Dict(r))]
                  = memory_cache.items[get_cache_key(Dict(r))]]_vars

\* C6 (as claimed): generate_summary_for_report(report, force_refresh=True)
\* on an enabled analyzer sends a request whatever is cached, and a summary
\* it returns is the one stored in the report cache.
C6_ForceRefreshBypassesCaches ==
    (/\ last.op = "generate_summary_for_report"
     /\ last.flag
     /\ is_enabled(api_key)
     /\ ~last.raised)
    => /\ last.calls >= 1
       /\ Truthy(last.ret) => EntrySummary(memory_cache, last.report) = last.ret

\* C7 (as claimed): a cache constructed over a file that does not hold a
\* JSON object is empty, and no later get, put or invalidate raises.
C7_CorruptFileGivesEmptyCache ==
    /\ (/\ last.op \in {"init", "restart"}
        /\ ~(cache_file.kind = "json" /\ cache_file.doc.shape = "dict"))
       => memory_cache = JsonDict(EmptyDict)
    /\ last.op \in {"get_cached_summary", "cache_summary", "invalidate_cache"}
       => ~last.raised

IsRetryable(a) == a.kind = "response" /\ a.status \in StatusForcelist

IsCompletion(a) ==
    /\ a.kind = "response"
    /\ a.status = 200
    /\ a.body.shape = "content"
    /\ Strip(a.body.content) # <<>>

\* the last call was a generate_summary that sent a request
SentRequest == last.op = "generate_summary" /\ last.calls > 0

\* C8 (as claimed): when the endpoint answers a POST with retryable
\* statuses and then, within 3 retries, with 200 and a non-empty completion,
\* generate_summary returns that completion; no request makes more than
\* 1 + 3 transport attempts.
C8_RetryableStatusIsRetried ==
    SentRequest =>
        /\ last.calls <= 1 + RetryTotal
        /\ \A i \in 2..(1 + RetryTotal) :
              (/\ \A j \in 1..(i - 1) : IsRetryable(AnswerAt(last.script, j))
               /\ IsCompletion(AnswerAt(last.script, i)))
              => last.ret = Strip(AnswerAt(last.script, i).body.content)

\* C9: when the endpoint answers a request with a status other than 200
\* and outside {429, 500, 502, 503, 504}, generate_summary makes exactly one
\* transport attempt and returns None.
C9_TerminalStatusNotRetried ==
    (/\ SentRequest
     /\ AnswerAt(last.script, 1).kind = "response"
     /\ AnswerAt(last.script, 1).status \notin StatusForcelist \cup {200})
    => /\ last.calls = 1
       /\ last.ret = None

\* a 402 was answered once although the endpoint would then have sent a
\* completion
C9_Witness ==
    /\ SentRequest
    /\ Len(last.script) = 2
    /\ AnswerAt(last.script, 1) = Response(402, NoBody)
    /\ IsCompletion(AnswerAt(last.script, 2))
    /\ last.calls = 1
    /\ last.ret = None

\* the body of a 200 holds no completion text
NoCompletion(a) ==
    /\ a.kind = "response"
    /\ a.status = 200
    /\ \/ a.body.shape \in {"no_choices", "empty_choices"}
       \/ a.body.shape = "content" /\ Strip(a.body.content) = <<>>

\* C10 (as claimed): a 200 whose choices are missing or empty, or whose
\* first completion is empty or blank, makes generate_summary return None,
\* as a transport error does.
C10_EmptyCompletionIsFailure ==
    (SentRequest /\ NoCompletion(AnswerAt(last.script, last.calls)))
    => last.ret = None

\* no credential: the key is absent, empty or blank
NoCredential == api_key = None \/ \A i \in 1..Len(api_key) : api_key[i] = " "

\* C11: without a credential generate_summary, generate_summary_for_report
\* and validate_api_key return None, None and False, make no transport
\* attempt and leave both caches, the cache file and the reports unchanged.
C11_DisabledShortCircuits ==
    [][(/\ NoCredential
        /\ last'.op \in {"generate_summary", "generate_summary_for_report",
                         "validate_api_key"})
       => /\ ~is_enabled(api_key)
          /\ ~last'.raised
          /\ last'.calls = 0
          /\ last'.ret = IF last'.op = "validate_api_key" THEN False ELSE None
          /\ UNCHANGED <<cache, memory_cache, cache_file, ai_summary>>]_vars

\* a blank key was validated against an endpoint that would have accepted
\* the request
C11_Witness ==
    /\ api_key = <<" ">>
    /\ last.op = "validate_api_key"
    /\ IsCompletion(AnswerAt(last.script, 1))
    /\ last.calls = 0
    /\ last.ret = False

\* the kind of terminal failure an answer is; "" for a completion
FailureKind(a) ==
    CASE a.kind = "connect_error" -> "connection"
      [] a.kind \in {"connect_timeout", "read_timeout"} -> "timeout"
      [] a.kind = "response" /\ a.status = 401 -> "401"
      [] a.kind = "response" /\ a.status = 402 -> "402"
      [] a.kind = "response" /\ a.status = 429 -> "429"
      [] a.kind = "response" /\ a.status = 200 /\ a.body.shape = "content" -> ""
      [] a.kind = "response" /\ a.status = 200 -> "malformed"
      [] OTHER -> "status"

\* the last call was a generate_summary whose request ended in a failure
FailedRequest == SentRequest /\ FailureKind(AnswerAt(last.script, last.calls)) # ""

\* what generate_summary gives, with nothing cached, for a request that the
\* endpoint answers with a at every attempt
Outcome(a) == generate_summary(api_key, EmptyDict, Dict(last.report), <<a>>)

\* the answers that end a request in a failure of another kind than the
\* last call's
OtherFailures ==
    {a \in Answers : FailureKind(a) \notin
                        {"", FailureKind(AnswerAt(last.script, last.calls))}}

TookKey == last.op = "get_cache_key"

\* the sequences that hold the elements of s in another order, s included
PermsOf(s) ==
    {[i \in 1..Len(s) |-> s[f[i]]] :
        f \in {g \in [1..Len(s) -> 1..Len(s)] :
                 \A i, j \in 1..Len(s) : g[i] = g[j] => i = j}}

\* C13: a report with the subdomains in another order and the open_ports in
\* another key order has the fingerprint of the subject.
C13_OrderOfSubdomainsAndPorts ==
    TookKey =>
        \A sd \in PermsOf(subject.subdomains), op \in PermsOf(subject.open_ports) :
            get_cache_key([subject EXCEPT !.subdomains = sd, !.open_ports = op])
                = last.ret

\* the fingerprint of a report with two subdomains out of order and two
\* ports was taken
C13_Witness ==
    /\ TookKey
    /\ subject.subdomains = <<"www.a.com", "api.a.com">>
    /\ subject.open_ports = << <<"80", "http">>, <<"443", "https">> >>
    /\ last.ret = get_cache_key([subject EXCEPT
                       !.subdomains = <<"api.a.com", "www.a.com">>,
                       !.open_ports = << <<"443", "https">>, <<"80", "http">> >>])

\* C14 (as claimed): a report with the vulnerabilities in another order has
\* the fingerprint of the subject, also when two of them share severity and
\* title.
C14_OrderOfVulnerabilities ==
    TookKey =>
        \A vs \in PermsOf(subject.vulnerabilities) :
            get_cache_key([subject EXCEPT !.vulnerabilities = vs]) = last.ret

Range(s) == {s[i] : i \in DOMAIN s}

\* a field as the dict holds it: absent, or a value
Field(v, k) == IF k \in DOMAIN v THEN <<v[k]>> ELSE <<>>

\* the reports that differ from the subject in the target, the scan_date,
\* the set of subdomains or the open_ports mapping
ChangedOutside ==
    {[subject EXCEPT !.target = "b.com"], [subject EXCEPT !.scan_date = "2025-01-16"]}
    \cup {[subject EXCEPT !.subdomains = sd] :
             sd \in {q \in KeySubdomains \cup {<<"api.a.com">>} :
                       Range(q) # Range(subject.subdomains)}}
    \cup {[subject EXCEPT !.open_ports = op] :
             op \in {q \in KeyPorts \cup {<< <<"80", "ssh">> >>} :
                       Range(q) # Range(subject.open_ports)}}

\* the reports that differ from the subject in the severity, title or
\* description one vulnerability holds
ChangedVulnerability ==
    UNION {{[subject EXCEPT !.vulnerabilities[i] = v] :
               v \in {w \in KeyVulns :
                        \E k \in {"severity", "title", "description"} :
                            Field(w, k) # Field(subject.vulnerabilities[i], k)}} :
           i \in DOMAIN subject.vulnerabilities}

\* the same, an absent field counting as the empty string
ChangedVulnerabilityText ==
    UNION {{[subject EXCEPT !.vulnerabilities[i] = v] :
               v \in {w \in KeyVulns :
                        \E k \in {"severity", "title", "description"} :
                            Get(w, k, "") # Get(subject.vulnerabilities[i], k, "")}} :
           i \in DOMAIN subject.vulnerabilities}

\* C15 (as claimed): a report that differs from the subject in target,
\* scan_date, set of subdomains, open_ports mapping, or in the severity,
\* title or description of a vulnerability, has another fingerprint.
C15_AnyChangeChangesKey ==
    TookKey =>
        \A d \in ChangedOutside \cup ChangedVulnerability : get_cache_key(d) # last.ret

\* C15 (amended): the same, where a severity, title or description that a
\* vulnerability lacks counts as the empty string.
C15_ChangeOfTextChangesKey ==
    TookKey =>
        \A d \in ChangedOutside \cup ChangedVulnerabilityText :
            get_cache_key(d) # last.ret

\* the fingerprint of a report with two vulnerabilities was taken, and a
\* report with another description in the second has another
C15_Witness ==
    /\ TookKey
    /\ Len(subject.vulnerabilities) = 2
    /\ Len(subject.subdomains) = 2
    /\ "description" \in DOMAIN subject.vulnerabilities[2]
    /\ subject.vulnerabilities[2].description = "d1"
    /\ \E d \in ChangedVulnerabilityText :
          /\ d.vulnerabilities[2] = [subject.vulnerabilities[2] EXCEPT !.description = "d2"]
          /\ get_cache_key(d) # last.ret

\* the reports that differ from the subject in the affected_service or the
\* cve_id of a vulnerability, in ai_summary or in a field of no meaning
SameContent ==
    {[subject EXCEPT !.vulnerabilities[i].affected_service = "ssh"] :
        i \in DOMAIN subject.vulnerabilities}
    \cup {[subject EXCEPT !.vulnerabilities[i].cve_id = "CVE-2"] :
             i \in DOMAIN subject.vulnerabilities}
    \cup {DictSet(subject, "ai_summary", a) : a \in {None, <<>>, <<"b">>}}
    \cup {DictSet(subject, "notes", "n")}

\* what report_cache.get_cached_summary(d) gives now
CachedFor(d) == get_cached_summary(memory_cache, d, Get(d, "ai_summary", None))

\* C16 (as claimed): a report that differs from the subject only in
\* affected_service, cve_id, ai_summary or a field of no meaning has the
\* fingerprint of the subject, and the summary cached for the subject is
\* returned for it.
C16_IgnoredFieldsShareEntry ==
    /\ TookKey => \A d \in SameContent : get_cache_key(d) = last.ret
    /\ last.op = "cache_summary" =>
          \A d \in SameContent : CachedFor(d) = Return(last.arg)

\* C16 (amended): such a report has the fingerprint of the subject, and the
\* summary cached for the subject is returned for it unless it carries a
\* non-empty ai_summary, which is returned instead.
C16_IgnoredFieldsShareKey ==
    /\ TookKey => \A d \in SameContent : get_cache_key(d) = last.ret
    /\ last.op = "cache_summary" =>
          \A d \in SameContent :
              CachedFor(d) = Return(IF Truthy(Get(d, "ai_summary", None))
                                    THEN d.ai_summary ELSE last.arg)

\* a summary was cached for a report with a vulnerability, and is returned
\* for the report with another affected_service
C16_Witness ==
    /\ last.op = "cache_summary"
    /\ last.arg = <<"a">>
    /\ Len(subject.vulnerabilities) = 1
    /\ CachedFor([subject EXCEPT !.vulnerabilities[1].affected_service = "ssh"])
         = Return(<<"a">>)

\* the last call loaded the directory
Loaded == last.op = "load_reports" /\ directory.exists

\* the files load_reports looks at
JsonFiles == {n \in DOMAIN directory.files : n \in {JsonName, UpperName}}

NotBlank(s) == \E i \in 1..Len(s) : s[i] # " "

\* the schema: target and scan_date strings of which s holds, subdomains a
\* list of strings, open_ports a mapping to strings, vulnerabilities a list
\* of mappings, ai_summary absent, null or a string
Conforms(doc, s(_)) ==
    /\ doc.type = "dict"
    /\ {"target", "scan_date", "subdomains", "open_ports", "vulnerabilities"}
          \subseteq DOMAIN doc.val
    /\ doc.val.target.type = "str" /\ s(doc.val.target.val)
    /\ doc.val.scan_date.type = "str" /\ s(doc.val.scan_date.val)
    /\ doc.val.subdomains.type = "list"
    /\ \A i \in DOMAIN doc.val.subdomains.val : doc.val.subdomains.val[i].type = "str"
    /\ doc.val.open_ports.type = "dict"
    /\ \A k \in DOMAIN doc.val.open_ports.val : doc.val.open_ports.val[k].type = "str"
    /\ doc.val.vulnerabilities.type = "list"
    /\ \A i \in DOMAIN doc.val.vulnerabilities.val :
          doc.val.vulnerabilities.val[i].type = "dict"
    /\ "ai_summary" \in DOMAIN doc.val => doc.val.ai_summary.type \in {"NoneType", "str"}

\* a file that holds a report matching the schema, a blank target or
\* scan_date counting as empty
ValidFile(n) ==
    /\ directory.files[n].kind = "json"
    /\ Conforms(directory.files[n].doc, NotBlank)

\* the records of the log at one of the levels that name the file n
Naming(n, levels) == {i \in DOMAIN log : log[i].file = n /\ log[i].level \in levels}

\* every valid file is returned, once, and nothing else is
ValidFilesReturned ==
    /\ ~last.raised
    /\ Len(reports) = Cardinality({n \in JsonFiles : ValidFile(n)})
    /\ \A n \in JsonFiles :
          ValidFile(n) =>
             Cardinality({i \in DOMAIN reports : reports[i] = directory.files[n].doc})
               = Cardinality({m \in JsonFiles : /\ ValidFile(m)
                                                 /\ directory.files[m].doc
                                                      = directory.files[n].doc})

C18_ReturnedReportsConform ==
    last.op = "load_reports" =>
        \A i \in DOMAIN reports : Conforms(reports[i], LAMBDA s : s # <<>>)

\* a directory with a file with a number among its subdomains and a valid
\* file with an ai_summary was loaded: the valid one is returned
C18_Witness ==
    /\ Loaded
    /\ JsonFiles = {JsonName, UpperName}
    /\ directory.files[JsonName] =
          Parsable(JDict([GoodFields EXCEPT
                            !.subdomains = JList(<<JStr(<<"w">>), JInt(1)>>)]))
    /\ reports = <<JDict(DictSet(GoodFields, "ai_summary", JStr(<<"s">>)))>>

\* the last call computed the metrics of the list in reports
Calculated == last.op = "calculate_kpis"

\* every element of the list is a report as load_reports returns them
AllReports == \A i \in DOMAIN reports : Conforms(reports[i], LAMBDA s : s # <<>>)

\* the elements of rs that are mappings with the field k of the type t
Having(rs, k, t) ==
    {i \in DOMAIN rs : /\ rs[i].type = "dict"
                        /\ k \in DOMAIN rs[i].val
                        /\ rs[i].val[k].type = t}

\* the different subdomains of the elements with a list of subdomains
UnionOfSubdomains(rs) ==
    UNION {Range(rs[i].val.subdomains.val) : i \in Having(rs, "subdomains", "list")}

\* the sum of the lengths of the lists of vulnerabilities
RECURSIVE SumOfVulnerabilities(_)
SumOfVulnerabilities(rs) ==
    IF rs = <<>> THEN 0
    ELSE (IF 1 \in Having(rs, "vulnerabilities", "list")
          THEN Len(rs[1].val.vulnerabilities.val) ELSE 0)
         + SumOfVulnerabilities(Tail(rs))

\* the sum of the sizes of the mappings of open ports
RECURSIVE SumOfPorts(_)
SumOfPorts(rs) ==
    IF rs = <<>> THEN 0
    ELSE (IF 1 \in Having(rs, "open_ports", "dict")
          THEN Cardinality(DOMAIN rs[1].val.open_ports.val) ELSE 0)
         + SumOfPorts(Tail(rs))

\* C19: for a list of reports calculate_kpis returns total_reports = the
\* number of reports, total_subdomains = the size of the union of their
\* subdomains, a subdomain of several reports or several times in one
\* counted once, total_vulnerabilities = the sum of their numbers of
\* vulnerabilities, and 0, 0, 0.0, 0 for the empty list.
C19_KpisOfReports ==
    Calculated /\ AllReports =>
        /\ ~last.raised
        /\ last.ret.total_reports = Len(reports)
        /\ last.ret.total_subdomains = Cardinality(UnionOfSubdomains(reports))
        /\ last.ret.total_vulnerabilities = SumOfVulnerabilities(reports)
        /\ reports = <<>> => last.ret = Kpis(0, 0, 0, 0)

\* the metrics of two reports that share a subdomain, after a report that
\* names a subdomain twice, were computed
C19_Witness ==
    /\ Calculated /\ AllReports
    /\ Len(reports) = 3
    /\ reports[1].val.subdomains = JList(<<Www, Www>>)
    /\ reports[2].val.subdomains = JList(<<Www, Api>>)
    /\ reports[3].val.subdomains = JList(<<Api, Mail>>)
    /\ last.ret.total_subdomains = 3
    /\ last.ret.total_vulnerabilities = 4

\* C20: calculate_kpis does not raise; an element that is None or no
\* mapping, or whose subdomains, open_ports or vulnerabilities is missing
\* or of a wrong type, counts zero for that metric only, the other elements
\* of the list count as they are, and total_reports is the length of the
\* list.
C20_MalformedElementsCountZero ==
    Calculated =>
        /\ ~last.raised
        /\ last.ret.total_reports = Len(reports)
        /\ last.ret.total_subdomains = Cardinality(UnionOfSubdomains(reports))
        /\ last.ret.total_vulnerabilities = SumOfVulnerabilities(reports)
        /\ reports # <<>> =>
              last.ret.avg_open_ports = Round1(SumOfPorts(reports), Len(reports))

\* the last call filtered the list in reports by the criteria in last.arg
Filtered == last.op = "filter_reports"

\* both bounds of the date range are given
BothBounds(filters) ==
    /\ filters.date_range # None
    /\ Len(filters.date_range) = 2
    /\ filters.date_range[1] # None /\ filters.date_range[2] # None

\* the texts of a report a keyword is looked for in: the target, the
\* subdomains, the title, description and affected service of the
\* vulnerabilities, the open ports and their services
Texts(r) ==
    {r.val.target.val}
    \cup {r.val.subdomains.val[i].val : i \in DOMAIN r.val.subdomains.val}
    \cup UNION {{r.val.vulnerabilities.val[i].val[k].val :
                    k \in DOMAIN r.val.vulnerabilities.val[i].val
                          \cap {"title", "description", "affected_service"}} :
                 i \in DOMAIN r.val.vulnerabilities.val}
    \cup DOMAIN r.val.open_ports.val
    \cup {r.val.open_ports.val[p].val : p \in DOMAIN r.val.open_ports.val}

\* the report satisfies the target, date and keyword criteria of the
\* filters, the keyword being the one given
MeetsUpTo(r, filters, keyword) ==
    /\ filters.selected_targets # <<>> => r.val.target \in Range(filters.selected_targets)
    /\ BothBounds(filters) =>
          /\ parse_date(r.val.scan_date.val) # None
          /\ DayLe(filters.date_range[1], parse_date(r.val.scan_date.val))
          /\ DayLe(parse_date(r.val.scan_date.val), filters.date_range[2])
    /\ keyword # <<>> => \E x \in Texts(r) : Contains(lower(keyword), lower(x))

\* the report carries an ai_summary
SummaryPresent(r) == "ai_summary" \in DOMAIN r.val /\ r.val.ai_summary # JNull

\* the report carries an ai_summary that is not blank
SummaryGiven(r) == SummaryPresent(r) /\ NotBlank(r.val.ai_summary.val)

\* C21 (as claimed): filter_reports returns exactly the reports of its input
\* that satisfy every active criterion: the target among selected_targets
\* when that is not empty, the scan_date inside the inclusive range when
\* both bounds are given, the keyword found when it is not empty, and an
\* ai_summary present or not as show_ai_summaries asks when that is not None.
C21_ReturnsReportsMeetingCriteria ==
    Filtered /\ AllReports =>
        last.ret =
            SelectSeq(reports,
                LAMBDA r : /\ MeetsUpTo(r, last.arg, last.arg.keyword_search)
                           /\ last.arg.show_ai_summaries # None =>
                                 (SummaryPresent(r) <=> last.arg.show_ai_summaries = True))

\* C21 (amended): filter_reports returns exactly the validated reports of its
\* input that satisfy every active criterion, where the keyword is taken
\* without the whitespace around it and is active when what is left is not
\* empty, and a report has an ai_summary when the field is a string that is
\* not blank.
C21_ReturnsReportsMeetingStrippedCriteria ==
    Filtered /\ AllReports =>
        last.ret =
            SelectSeq(reports,
                LAMBDA r : /\ MeetsUpTo(r, last.arg, Strip(last.arg.keyword_search))
                           /\ last.arg.show_ai_summaries # None =>
                                 (SummaryGiven(r) <=> last.arg.show_ai_summaries = True))

\* two validated reports, one with a blank ai_summary, were filtered by a
\* keyword with a space before it and for the reports with a summary: the
\* one with a summary that is not blank is returned
C21_Witness ==
    /\ Filtered /\ AllReports
    /\ Len(reports) = 2
    /\ SummaryPresent(reports[1]) /\ ~SummaryGiven(reports[1])
    /\ last.arg.keyword_search = <<" ", "S">>
    /\ last.arg.show_ai_summaries = True
    /\ last.ret = <<reports[2]>>

\* the criteria that ask for one thing
OneCriterion ==
    UNION {{[NoCriteria EXCEPT ![k] = v] : v \in Widgets[k] \ {NoCriteria[k]}} :
             k \in DOMAIN Widgets}

\* the criteria of a and those of b, which a does not ask for
Both(a, b) == [k \in DOMAIN a |-> IF b[k] # NoCriteria[k] THEN b[k] ELSE a[k]]

\* the criteria of some other kind than those of the last call
Others ==
    {b \in OneCriterion : \A k \in DOMAIN b : b[k] # NoCriteria[k] => last.arg[k] = NoCriteria[k]}

\* C22: filtering validated reports by criteria A and then by B gives what
\* filtering by B and then by A gives and what one call with both gives, and
\* filtering the result of a call again by its criteria gives it back.
C22_FiltersCommute ==
    Filtered /\ AllReports =>
        /\ filter_reports(last.ret, last.arg).ret = last.ret
        /\ \A b \in Others :
              \E ab \in {filter_reports(last.ret, b).ret} :
                 /\ ab = filter_reports(filter_reports(reports, b).ret, last.arg).ret
                 /\ ab = filter_reports(reports, Both(last.arg, b)).ret

\* two reports were filtered by their targets, both were kept, and a date
\* range keeps one of the two
C22_Witness ==
    /\ Filtered /\ AllReports
    /\ last.arg.selected_targets # <<>>
    /\ Len(last.ret) = 2 /\ last.ret[1] # last.ret[2]
    /\ \E b \in Others : /\ BothBounds(b)
                         /\ Len(filter_reports(last.ret, b).ret) = 1

\* the report with the time of day taken off its scan_date
WithoutTime(r) ==
    JDict([r.val EXCEPT !.scan_date = JStr(Head(Split(Strip(r.val.scan_date.val), " ")))])

\* the scan_date of the report has a time of day and is parsed
HasTime(r) ==
    /\ parse_date(r.val.scan_date.val) # None
    /\ Len(Split(Strip(r.val.scan_date.val), " ")) > 1

\* C25: a validated report whose scan_date is in none of the accepted formats
\* is not returned while a date range with both bounds is active, and is
\* returned when only target and keyword criteria are active and it
\* satisfies them; and a report with a time of day in its scan_date is
\* inside a range exactly when it is without the time.
C25_UnparsedDatesAndTimes ==
    Filtered /\ AllReports =>
        \A i \in DOMAIN reports :
            /\ parse_date(reports[i].val.scan_date.val) = None =>
                  IF BothBounds(last.arg) THEN reports[i] \notin Range(last.ret)
                  ELSE (/\ last.arg.show_ai_summaries = None
                        /\ MeetsUpTo(reports[i], last.arg, Strip(last.arg.keyword_search)))
                       => reports[i] \in Range(last.ret)
            /\ HasTime(reports[i]) /\ BothBounds(last.arg) =>
                  (filter_by_date_range(<<reports[i]>>, last.arg.date_range[1],
                                        last.arg.date_range[2]) = <<>>
                   <=> filter_by_date_range(<<WithoutTime(reports[i])>>,
                                            last.arg.date_range[1],
                                            last.arg.date_range[2]) = <<>>)

\* a report scanned at half past ten on the last day of the range and a
\* report with a date in no accepted format were filtered by the range: the
\* first is returned, the second is not
C25_Witness ==
    /\ Filtered /\ AllReports
    /\ Len(reports) = 2
    /\ HasTime(reports[1])
    /\ parse_date(reports[1].val.scan_date.val)[4] = 10
    /\ parse_date(reports[2].val.scan_date.val) = None
    /\ last.arg.date_range = <<<<2025, 1, 15>>, <<2025, 1, 15>>>>
    /\ last.arg.selected_targets = <<>> /\ last.arg.keyword_search = <<>>
    /\ last.arg.show_ai_summaries = None
    /\ last.ret = <<reports[1]>>

\* the call l generated a summary: it made a request and returned the text
Generated(l) ==
    /\ l.op \in {"generate_summary", "generate_summary_for_report"}
    /\ ~l.raised
    /\ l.calls >= 1
    /\ Truthy(l.ret)

\* C23: after a successful generation for a report, a generate_summary or a
\* generate_summary_for_report without force_refresh for the same report
\* returns the same summary and makes no request.
C23_RepeatedCallsAreServedFromCache ==
    [][(/\ Generated(last)
        /\ last'.op \in {"generate_summary", "generate_summary_for_report"}
        /\ ~last'.flag
        /\ last'.report = last.report)
       => /\ ~last'.raised
          /\ last'.ret = last.ret
          /\ last'.calls = 0]_vars

----------------------------------------------------------------------------
(* Batch generation *)

Batched == last.op = "batch_generate_summaries"

\* the request for the i-th report of the batch is answered by a completion
Answered(i) ==
    /\ AnswerAt(last.script[i], 1).kind = "response"
    /\ AnswerAt(last.script[i], 1).status = 200
    /\ AnswerAt(last.script[i], 1).body.shape = "content"
    /\ NotBlank(AnswerAt(last.script[i], 1).body.content)

\* C24: batch_generate_summaries takes the reports in input order, calls
\* the progress callback exactly once per report, a failed generation never
\* prevents the following reports from being processed, and the result
\* holds a summary for every report whose generation can succeed: with an
\* enabled analyzer, every report whose request is answered by a completion
C24_BatchProcessesEveryReport ==
    Batched =>
       /\ ~last.raised
       /\ last.arg = [i \in 1..Len(last.report) |->
                         <<i - 1, Len(last.report), Dict(last.report[i]).target>>]
       /\ \A i \in 1..Len(last.report) :
             is_enabled(api_key) /\ Answered(i)
                => /\ Dict(last.report[i]).target \in DOMAIN last.ret
                   /\ Truthy(last.ret[Dict(last.report[i]).target])

----------------------------------------------------------------------------
(* Crashes *)

\* C26: a crash during cache_summary, invalidate_cache or clear_cache
\* leaves the cache file with its complete old content or with the complete
\* new content, never truncated or unparsable
C26_CrashLeavesOldOrNewFile ==
    [][last'.op = "crash"
          => cache_file' = cache_file \/ cache_file' = FileJson(last'.arg)]_vars

----------------------------------------------------------------------------
(* Outcomes of a generation request *)

\* the outcome a finished generate_summary ended in, told by what it
\* returned and printed; an unparsable body prints "Invalid JSON response"
\* or, through the RequestException clause, "Request failed"
OutcomeOf(l) ==
    CASE l.raised -> "EXCEPTION"
      [] l.ret # None -> "SUCCESS"
      [] l.msg = "Rate limit exceeded" -> "RATE_LIMITED"
      [] l.msg = "Invalid API key" -> "AUTH_FAILED"
      [] l.msg = "Insufficient credits" -> "INSUFFICIENT_CREDITS"
      [] l.msg = "Request timed out" -> "TIMEOUT"
      [] l.msg = "Connection failed" -> "CONNECTION_FAILED"
      [] l.msg \in {"Invalid JSON response", "Unexpected response format",
                    "Unexpected error"} -> "MALFORMED_RESPONSE"
      [] /\ l.msg = "Request failed"
         /\ AnswerAt(l.script, l.calls).body.shape = "invalid_json" -> "MALFORMED_RESPONSE"
      [] l.msg = "HTTP error" -> "HTTP_ERROR"
      [] OTHER -> "NONE"

SevenOutcomes ==
    {"SUCCESS", "RATE_LIMITED", "AUTH_FAILED", "INSUFFICIENT_CREDITS", "TIMEOUT",
     "CONNECTION_FAILED", "MALFORMED_RESPONSE"}

\* no attempt of the last request was answered: each one timed out
NeverAnswered ==
    \A i \in 1..last.calls :
       AnswerAt(last.script, i).kind \in {"connect_timeout", "read_timeout"}

\* the outcome the answer that ended the last request calls for
Called ==
    CASE FailureKind(AnswerAt(last.script, last.calls)) = "" -> "SUCCESS"
      [] FailureKind(AnswerAt(last.script, last.calls)) = "429" -> "RATE_LIMITED"
      [] FailureKind(AnswerAt(last.script, last.calls)) = "401" -> "AUTH_FAILED"
      [] FailureKind(AnswerAt(last.script, last.calls)) = "402" -> "INSUFFICIENT_CREDITS"
      [] FailureKind(AnswerAt(last.script, last.calls)) = "timeout" -> "TIMEOUT"
      [] FailureKind(AnswerAt(last.script, last.calls)) = "connection" -> "CONNECTION_FAILED"
      [] FailureKind(AnswerAt(last.script, last.calls)) = "malformed" -> "MALFORMED_RESPONSE"
      [] OTHER -> "HTTP_ERROR"

\* C27 (as claimed): every request of an enabled analyzer ends in exactly
\* one of SUCCESS, RATE_LIMITED, AUTH_FAILED, INSUFFICIENT_CREDITS, TIMEOUT,
\* CONNECTION_FAILED and MALFORMED_RESPONSE, no exception escapes
\* generate_summary, and a request that is never answered ends in TIMEOUT.
C27_EndsInOneOfSevenOutcomes ==
    SentRequest =>
        /\ OutcomeOf(last) \in SevenOutcomes
        /\ NeverAnswered => OutcomeOf(last) = "TIMEOUT"

\* C27 (amended): every request of an enabled analyzer ends, with no
\* exception escaping generate_summary, in the one outcome its last answer
\* calls for, which is one of the seven or HTTP_ERROR (a status other than
\* 200, 401, 402 and 429); a request that is never answered ends in TIMEOUT;
\* and the analyzer then takes the next request.
C27_EndsInOneOfEightOutcomes ==
    /\ SentRequest =>
          /\ OutcomeOf(last) \in SevenOutcomes \cup {"HTTP_ERROR"}
          /\ OutcomeOf(last) = Called
          /\ NeverAnswered => OutcomeOf(last) = "TIMEOUT"
    /\ ENABLED (\E sc \in Scripts : GenerateSummary("A", sc))

\* a request whose connection attempts all timed out, the first and the
\* three retries, ended in TIMEOUT
C27_Witness ==
    /\ SentRequest
    /\ is_enabled(api_key)
    /\ NeverAnswered
    /\ last.calls = 1 + RetryTotal
    /\ OutcomeOf(last) = "TIMEOUT"

----------------------------------------------------------------------------
(* Write-through *)

\* a cache constructed over the file now would hold what memory_cache holds
Synced == load_persistent_cache(cache_file) = memory_cache

\* the last call was a cache_summary, invalidate_cache or clear_cache whose
\* write to the file, if it made one, succeeded
Wrote(l) == l.op \in {"cache_summary", "invalidate_cache", "clear_cache"} /\ l.flag

\* C28: with file writes that succeed, the file holds the in-memory map
\* after construction and after every cache_summary, invalidate_cache and
\* clear_cache: the file follows each of these calls, a cache constructed
\* over it afterwards holds the entry put and neither the entry invalidated
\* nor any entry cleared, and a restart brings back exactly what the map
\* held.
C28_FileFollowsMemory ==
    /\ Synced
    /\ [][/\ (Synced /\ Wrote(last')) =>
               /\ Synced'
               /\ (~last'.raised /\ last'.ret # False) =>
                     cache_file' = FileJson(memory_cache')
               /\ (last'.op = "cache_summary" /\ ~last'.raised) =>
                     EntrySummary(load_persistent_cache(cache_file'), last'.report)
                        = last'.arg
               /\ last'.op = "invalidate_cache" =>
                     ~HasEntry(load_persistent_cache(cache_file'), last'.report)
               /\ last'.op = "clear_cache" =>
                     load_persistent_cache(cache_file').items = EmptyDict
          /\ (Synced /\ last'.op = "restart") => memory_cache' = memory_cache]_vars

\* an entry was invalidated and written through while the other report's
\* entry stays, in the map and in the file
C28_Witness ==
    /\ last.op = "invalidate_cache"
    /\ last.flag
    /\ last.ret = True
    /\ cache_file = FileJson(memory_cache)
    /\ ~HasEntry(memory_cache, last.report)
    /\ \E r \in Reports : HasEntry(memory_cache, r)

----------------------------------------------------------------------------
(* Invalidation through the analyzer *)

\* C29: after invalidate_report_cache(report) the report has no ai_summary
\* and neither cache of the analyzer holds a summary for it, and the next
\* generate_summary_for_report(report) of the enabled analyzer sends a new
\* request.
C29_InvalidatedSummaryIsNotServed ==
    [][/\ last'.op = "invalidate_report_cache" =>
             /\ ai_summary'[last'.report] = None
             /\ ~HasEntry(memory_cache', last'.report)
             /\ generate_cache_key(Dict(last'.report)) \notin DOMAIN cache'
       /\ (/\ last.op = "invalidate_report_cache"
           /\ last'.op = "generate_summary_for_report"
           /\ last'.report = last.report
           /\ is_enabled(api_key))
          => last'.raised \/ last'.calls >= 1]_vars

----------------------------------------------------------------------------
(* The two key functions *)

\* C30: AIAnalyzer._generate_cache_key gives the subject and another report
\* equal keys exactly when ReportAICache.get_cache_key does: for the reports
\* that differ from the subject in a field, in the order of a list or in
\* nothing that either fingerprint should take.
C30_KeyFunctionsAgree ==
    TookKey =>
        \A d \in SameContent \cup ChangedOutside \cup ChangedVulnerabilityText
                 \cup {[subject EXCEPT !.vulnerabilities = vs, !.subdomains = sd] :
                          vs \in PermsOf(subject.vulnerabilities),
                          sd \in PermsOf(subject.subdomains)} :
            (generate_cache_key(d) = generate_cache_key(subject))
               <=> (get_cache_key(d) = last.ret)

====
